---- MODULE Spec2Model ----
(***************************************************************************)
(* Run orchestration of the hot-dog-or-not benchmark backend:              *)
(*   backend/services/test_runner.py   runs, batches, the run executor     *)
(*   backend/services/rate_limiter.py  the global rate limiter             *)
(*   backend/routers/benchmark.py      the requests, the predictions poll  *)
(*                                                                         *)
(* Modelled are the in-memory registries of test_runner.py, one asyncio     *)
(* task per started run, the shared rate limiter, and the results          *)
(* directory on disk, which survives a restart of the process.             *)
(*                                                                         *)
(* Conventions                                                             *)
(*   - a RunMeta object is identified by the order in which start_run      *)
(*     created it (a task index); the run id is a field of it;             *)
(*   - model_name, sample_size and started_at of RunMeta, and split,       *)
(*     filename and reasoning of Prediction, are write-once descriptive    *)
(*     fields no transition reads; they are left out;                      *)
(*   - time is counted in whole seconds; the limiter only ever uses the    *)
(*     difference time.monotonic() - _last_request_time and compares it    *)
(*     with _min_gap, so the difference is kept, saturated at MinGap;      *)
(*   - variables whose name starts with h_ are history variables: no       *)
(*     action's guard or program state reads them.                         *)
(***************************************************************************)
EXTENDS Integers, Sequences, FiniteSets, TLC

(* ----------------------------- bounds --------------------------------- *)
\* start_run calls over the whole behaviour (task slots)
MaxRuns == 2
\* images in data/test/hot_dog and data/test/not_hot_dog
NumHot == 1
NumNot == 1
\* batches registered at a time
MaxBatches == 1
\* file operations that raise over the whole behaviour
MaxFaults == 1
\* vote requests in flight together, round ids and voter ids
MaxVoteCalls == 2
MaxRounds == 2
MaxVoters == 2

(* ------------------------ program constants --------------------------- *)
MAX_CALLS_PER_MINUTE == 20
\* self._min_gap = 60.0 / max_per_minute, in seconds
MinGap == 60 \div MAX_CALLS_PER_MINUTE

Tasks == 1..MaxRuns
\* str(uuid.uuid4())[:8]: the identifiers a draw can return
RunIds == 1..MaxRuns
BatchIds == 1..MaxBatches
\* batch_id = None
NoBatch == 0
\* the 60.0 of 60.0 / max_per_minute: the seconds of a minute
Minute == 60

\* config.MODELS (ids), cut to the number of task slots a default batch can fill
ConfiguredModels ==
    << "nvidia/nemotron-nano-12b-v2-vl:free", "google/gemma-3-27b-it:free",
       "allenai/molmo-2-8b:free", "google/gemma-3-12b-it:free" >>
MODELS == SubSeq(ConfiguredModels, 1, IF MaxRuns < 4 THEN MaxRuns ELSE 4)
\* a model id that is not in config.MODELS
UnlistedModel == "acme/vision-1"
RequestModels == {MODELS[1], UnlistedModel}

Min(a, b) == IF a < b THEN a ELSE b
Max(a, b) == IF a > b THEN a ELSE b

(* --------------------------- the data set ----------------------------- *)
Image(category, n) == [category |-> category, filename |-> n]
\* key = f"{img['split']}/{img['category']}/{img['filename']}"
Key(img) == << "test", img.category, img.filename >>

\* hot[:sample_size]; sample_size is <<>> for None and <<n>> for the int n
Take(s, sample_size) ==
    IF sample_size = <<>> THEN s ELSE SubSeq(s, 1, Min(sample_size[1], Len(s)))

\* list_all_images over a test split of the given numbers of files: hot_dog and
\* not_hot_dog interleaved
ListImages(hot_files, not_files, sample_size) ==
    LET hot == Take([i \in 1..hot_files |-> Image("hot_dog", i)], sample_size)
        not_hot == Take([i \in 1..not_files |-> Image("not_hot_dog", i)], sample_size)
        pairs == Min(Len(hot), Len(not_hot))
        interleaved == [i \in 1..(2 * pairs) |->
                          IF i % 2 = 1 THEN hot[(i + 1) \div 2] ELSE not_hot[i \div 2]]
        longer == IF Len(hot) > Len(not_hot)
                  THEN SubSeq(hot, Len(not_hot) + 1, Len(hot))
                  ELSE SubSeq(not_hot, Len(hot) + 1, Len(not_hot))
    IN  interleaved \o longer

\* list_all_images over the data set of the bounds
ListAllImages(sample_size) == ListImages(NumHot, NumNot, sample_size)

SampleSizes == {<<>>} \cup {<<n>> : n \in 0..Max(NumHot, NumNot)}

(* ------------------------- gateway and parser ------------------------- *)
\* texts classify_image can return: one with a verdict, one without
RawResponses == {"Answer: yes", ""}
\* latency_ms of a returned call, already rounded
Latencies == {250}
\* str(e) of the RuntimeError classify_image raises
GatewayErrors == {"503 (attempt 4)"}
\* str(e) of the OSError a failed log append raises
AppendError == "[Errno 28] No space left on device"

\* parse_response on RawResponses
ParseResponse(raw) ==
    IF raw = "" THEN "error"
    ELSE IF raw = "Answer: yes" THEN "yes"
    ELSE IF raw = "Answer: no" THEN "no"
    ELSE "error"

\* seeded fault: every verdict but yes is right for an image that is no hot dog
IsCorrectUnlessYes(parsed, category) ==
    \/ parsed = "yes" /\ category = "hot_dog"
    \/ parsed # "yes" /\ category = "not_hot_dog"

\* is_correct
IsCorrect(parsed, category) ==
    \/ parsed = "yes" /\ category = "hot_dog"
    \/ parsed = "no" /\ category = "not_hot_dog"

\* Prediction(...) built after a returned call
SuccessPrediction(img, raw, latency) ==
    [image_path |-> Key(img), category |-> img.category, raw_response |-> raw,
     parsed |-> ParseResponse(raw),
     correct |-> IsCorrect(ParseResponse(raw), img.category),
     latency_ms |-> latency]

\* seeded fault: the error record carries the latency of a timed call
ErrorPredictionTimed(img, message) ==
    [image_path |-> Key(img), category |-> img.category, raw_response |-> message,
     parsed |-> "error", correct |-> FALSE, latency_ms |-> 250]

\* Prediction(...) built in the per-image except branch
ErrorPrediction(img, message) ==
    [image_path |-> Key(img), category |-> img.category, raw_response |-> message,
     parsed |-> "error", correct |-> FALSE, latency_ms |-> 0]

(* ------------------------------ RunMeta ------------------------------- *)
Terminal == {"completed", "cancelled", "failed"}
RunStatus == {"pending", "running"} \cup Terminal

\* RunMeta(...) as start_run builds it
NewMeta(run_id, model_id, batch_id, images) ==
    [run_id |-> run_id, batch_id |-> batch_id, model_id |-> model_id,
     status |-> "pending",
     total_images |-> Len(images), processed |-> 0, correct |-> 0, errors |-> 0,
     completed_at |-> "None"]

\* the value of a task slot no start_run has filled
NoMeta == NewMeta(0, "", NoBatch, <<>>)

(* ------------------------------ state --------------------------------- *)
VARIABLES
    \* test_runner.py module state (in memory)
    _active_runs,      \* run id -> task index of the registered RunMeta, 0 = absent
    _cancel_flags,     \* run id -> flag; an absent key reads False in the executor
    _active_batches,   \* batch id -> set of <<model_id, run_id>> (a dict), {} = absent
    \* one _run_benchmark task per start_run call
    meta,              \* task -> the RunMeta object the task holds
    pc,                \* task -> where the task stands
    idx,               \* task -> position of the for loop in images (1-based)
    images,            \* task -> the images argument
    processed_keys,    \* task -> processed_keys
    attempt,           \* task -> requests classify_image has posted in its present call
    \* GlobalRateLimiter
    elapsed,           \* time.monotonic() - _last_request_time, saturated at MinGap
    lock_holder,       \* task that holds _lock, 0 = unlocked
    lock_waiters,      \* tasks queued on _lock, first come first
    sleep_left,        \* task -> seconds left of its asyncio.sleep
    \* settings.results_dir
    exists,            \* the files present: <<run id, "meta" | "jsonl" | "queue">>
    meta_file,         \* run id -> content of <run id>_meta.json
    jsonl,             \* run id -> lines of <run id>.jsonl
    queue_file,        \* run id -> content of <run id>_queue.json
    io_faults,         \* file operations that may still raise
    \* history
    h_since,           \* seconds since the last completed acquire(), saturated
    h_acquired,        \* task -> keys of the images it called acquire() for
    h_called,          \* task -> keys of the images it called the gateway for
    h_received,        \* run id -> the records a polling client has been given
    h_window,          \* seconds since an observer began to count, -1 = not counting
    h_count,           \* requests posted to the gateway since then, inside one minute
    \* one call of a function of services/metrics.py
    call_args,         \* << function name, arguments >>, <<>> = no call
    call_ret,          \* << value returned >>, <<>> = not returned
    \* the worker thread of DELETE /api/benchmark/runs
    clearing,          \* where clear_history stands: see NoClear
    \* routers/battle.py and routers/arena.py: the votes
    battle_file,       \* the round ids recorded in battle.jsonl
    votes_file,        \* the lines of votes.jsonl
    vote_calls         \* the vote requests in flight: see NoVoteCall

registryVars == << _active_runs, _cancel_flags, _active_batches >>
taskVars == << meta, pc, idx, images, processed_keys, attempt >>
limiterVars == << elapsed, lock_holder, lock_waiters, sleep_left >>
diskVars == << exists, meta_file, jsonl, queue_file, io_faults >>
histVars == << h_since, h_acquired, h_called, h_received, h_window, h_count >>
voteVars == << battle_file, votes_file, vote_calls >>
callVars == << call_args, call_ret, clearing, voteVars >>
vars == << registryVars, taskVars, limiterVars, diskVars, histVars, callVars >>

\* no clear_history is running; else todo holds the run ids of the snapshots
\* the glob of line 71 has listed and the loop has not yet come to, and current
\* the run id that has passed line 76 and whose files are about to be unlinked
NoClear == [on |-> FALSE, todo |-> {}, current |-> 0]

\* the numbers of the vote requests that may be in flight together
VoteCalls == 1 .. MaxVoteCalls

\* no request stands at this number
NoVoteCall == [pc |-> "none", via |-> "", round_id |-> 0, voter_id |-> 0,
               voted_for |-> "", first_side |-> "", intact |-> TRUE, reply |-> ""]

\* A fresh process over an empty results directory, in which the given number
\* of file operations may raise.  _last_request_time is 0.0 and time.monotonic()
\* counts from the start of the machine, so that the first elapsed time is long.
FreshProcess(faults) ==
    /\ _active_runs = [r \in RunIds |-> 0]
    /\ _cancel_flags = [r \in RunIds |-> FALSE]
    /\ _active_batches = [b \in BatchIds |-> {}]
    /\ meta = [t \in Tasks |-> NoMeta]
    /\ pc = [t \in Tasks |-> "none"]
    /\ idx = [t \in Tasks |-> 1]
    /\ images = [t \in Tasks |-> <<>>]
    /\ processed_keys = [t \in Tasks |-> {}]
    /\ elapsed = MinGap
    /\ lock_holder = 0
    /\ lock_waiters = <<>>
    /\ sleep_left = [t \in Tasks |-> 0]
    /\ exists = {}
    /\ meta_file = [r \in RunIds |-> NoMeta]
    /\ jsonl = [r \in RunIds |-> <<>>]
    /\ queue_file = [r \in RunIds |-> <<>>]
    /\ io_faults = faults
    /\ h_since = MinGap
    /\ h_acquired = [t \in Tasks |-> {}]
    /\ h_called = [t \in Tasks |-> {}]
    /\ h_received = [r \in RunIds |-> <<>>]
    /\ attempt = [t \in Tasks |-> 0]
    /\ h_window = -1
    /\ h_count = 0
    /\ call_args = <<>>
    /\ call_ret = <<>>
    /\ clearing = NoClear
    /\ battle_file = {}
    /\ votes_file = <<>>
    /\ vote_calls = [i \in VoteCalls |-> NoVoteCall]

Init == FreshProcess(MaxFaults)

(* ---------------------------- start_run -------------------------------- *)
\* get_model_info: a configured model, else one inferred from the id; <<>> is None
\* seeded fault: get_model_info returns None for an id that is not in MODELS
GetModelInfoListed(model_id) ==
    IF \E i \in 1..Len(MODELS) : MODELS[i] = model_id
    THEN << [id |-> model_id, configured |-> TRUE] >>
    ELSE <<>>

GetModelInfo(model_id) ==
    IF \E i \in 1..Len(MODELS) : MODELS[i] = model_id
    THEN << [id |-> model_id, configured |-> TRUE] >>
    ELSE << [id |-> model_id, configured |-> FALSE] >>

\* d[k] = v on a dict kept as a set of <<k, v>>
DictPut(d, k, v) == {p \in d : p[1] # k} \cup {<< k, v >>}
DictValues(d) == {p[2] : p \in d}

\* the task slot the next asyncio.create_task fills
NextSlot(pcs) ==
    CHOOSE t \in Tasks : pcs[t] = "none" /\ \A u \in 1..(t - 1) : pcs[u] # "none"
FreeSlots(pcs) == Cardinality({t \in Tasks : pcs[t] = "none"})

\* the part of the state start_run reads and writes
StartState ==
    [ar |-> _active_runs, cf |-> _cancel_flags, meta |-> meta, pc |-> pc,
     images |-> images, exists |-> exists, meta_file |-> meta_file,
     queue_file |-> queue_file]

\* seeded fault: the queue snapshot is written last image first
StartRunInQueueReversed(S, run_id, model_id, batch_id, imgs) ==
    LET t == NextSlot(S.pc)
        m == NewMeta(run_id, model_id, batch_id, imgs)
    IN  [S EXCEPT !.ar[run_id] = t,
                  !.cf[run_id] = FALSE,
                  !.meta[t] = m,
                  !.pc[t] = "created",
                  !.images[t] = imgs,
                  !.meta_file[run_id] = m,
                  !.queue_file[run_id] = [i \in 1..Len(imgs) |-> imgs[Len(imgs) + 1 - i]],
                  !.exists = @ \cup {<< run_id, "meta" >>, << run_id, "queue" >>}]

\* seeded fault: the task is created before the queue snapshot is written, and
\* the write is left out
StartRunInNoQueue(S, run_id, model_id, batch_id, imgs) ==
    LET t == NextSlot(S.pc)
        m == NewMeta(run_id, model_id, batch_id, imgs)
    IN  [S EXCEPT !.ar[run_id] = t,
                  !.cf[run_id] = FALSE,
                  !.meta[t] = m,
                  !.pc[t] = "created",
                  !.images[t] = imgs,
                  !.meta_file[run_id] = m,
                  !.exists = @ \cup {<< run_id, "meta" >>}]

\* start_run after the model check, with run_id the identifier drawn
StartRunIn(S, run_id, model_id, batch_id, imgs) ==
    LET t == NextSlot(S.pc)
        m == NewMeta(run_id, model_id, batch_id, imgs)
    IN  [S EXCEPT !.ar[run_id] = t,
                  !.cf[run_id] = FALSE,
                  !.meta[t] = m,
                  !.pc[t] = "created",
                  !.images[t] = imgs,
                  !.meta_file[run_id] = m,
                  !.queue_file[run_id] = imgs,
                  !.exists = @ \cup {<< run_id, "meta" >>, << run_id, "queue" >>}]

SetStartState(S) ==
    /\ _active_runs' = S.ar
    /\ _cancel_flags' = S.cf
    /\ meta' = S.meta
    /\ pc' = S.pc
    /\ images' = S.images
    /\ exists' = S.exists
    /\ meta_file' = S.meta_file
    /\ queue_file' = S.queue_file

\* POST /api/benchmark/run -> start_run(model_id, sample_size, api_key)
StartRun(run_id, model_id, sample_size) ==
    /\ FreeSlots(pc) >= 1
    /\ IF GetModelInfo(model_id) = <<>>
       THEN UNCHANGED << _active_runs, _cancel_flags, meta, pc, images, exists,
                         meta_file, queue_file >>
       ELSE SetStartState(StartRunIn(StartState, run_id, model_id, NoBatch,
                                     ListAllImages(sample_size)))
    /\ UNCHANGED << _active_batches, idx, attempt, processed_keys, limiterVars, jsonl, io_faults,
                    histVars, callVars >>

\* selected: the infos of the requested models, or MODELS
Selected(model_ids) ==
    IF model_ids # <<>> /\ model_ids[1] # <<>>
    THEN LET ids == model_ids[1]
             F[i \in 0..Len(ids)] ==
                 IF i = 0 THEN <<>>
                 ELSE IF GetModelInfo(ids[i]) # <<>> THEN Append(F[i - 1], ids[i])
                 ELSE F[i - 1]
         IN  F[Len(ids)]
    ELSE MODELS

\* seeded fault: the loop of start_batch_run does not pass the batch id on
StartAllUntagged(S, selected, rids, batch_id, imgs) ==
    LET F[i \in 0..Len(selected)] ==
            IF i = 0 THEN << S, {} >>
            ELSE << StartRunIn(F[i - 1][1], rids[i], selected[i], NoBatch, imgs),
                    DictPut(F[i - 1][2], selected[i], rids[i]) >>
    IN  F[Len(selected)]

\* the loop of start_batch_run: << state, run_ids >> after the first i models
StartAll(S, selected, rids, batch_id, imgs) ==
    LET F[i \in 0..Len(selected)] ==
            IF i = 0 THEN << S, {} >>
            ELSE << StartRunIn(F[i - 1][1], rids[i], selected[i], batch_id, imgs),
                    DictPut(F[i - 1][2], selected[i], rids[i]) >>
    IN  F[Len(selected)]

\* POST /api/benchmark/batch-run -> start_batch_run(sample_size, api_key, model_ids)
\* model_ids is <<>> for None and << list >> for a list
StartBatchRun(batch_id, rids, sample_size, model_ids) ==
    LET selected == Selected(model_ids)
        done == StartAll(StartState, selected, rids, batch_id,
                         ListAllImages(sample_size))
    IN  /\ Len(rids) = Len(selected)
        /\ FreeSlots(pc) >= Len(selected)
        /\ IF selected = <<>>
           THEN UNCHANGED << _active_runs, _cancel_flags, meta, pc, images, exists,
                             meta_file, queue_file, _active_batches >>
           ELSE /\ SetStartState(done[1])
                /\ _active_batches' = [_active_batches EXCEPT ![batch_id] = done[2]]
        /\ UNCHANGED << idx, attempt, processed_keys, limiterVars, jsonl, io_faults,
                        histVars, callVars >>

(* ------------------------- GlobalRateLimiter -------------------------- *)
\* seeded fault: acquire() does not sleep
SleepForNothing(e) == 0

\* asyncio.sleep(self._min_gap - elapsed): the seconds slept
SleepFor(e) == MinGap - e

\* the requests posted inside the minute an observer counts, one more posted
Counted(count) == IF h_window \in 0..(Minute - 1) THEN count + 1 ELSE count

\* seeded fault: the release of the lock wakes no waiter
ReleasedWakesNobody(waiters) == [holder |-> 0, waiters |-> waiters]

\* self._lock released: the first waiter, if any, is handed the lock
Released(waiters) ==
    [holder |-> IF waiters = <<>> THEN 0 ELSE Head(waiters),
     waiters |-> IF waiters = <<>> THEN <<>> ELSE Tail(waiters)]

\* acquire() line 24 and the exit of "async with": the timestamp is written, the
\* lock released, acquire() returns and classify_image is called
Complete(t, waiters) ==
    /\ elapsed' = 0
    /\ lock_holder' = Released(waiters).holder
    /\ lock_waiters' = Released(waiters).waiters
    /\ sleep_left' = [sleep_left EXCEPT ![t] = 0]
    /\ pc' = [pc EXCEPT ![t] = "classify"]
    /\ h_since' = 0
    /\ h_called' = [h_called EXCEPT ![t] = @ \cup {Key(images[t][idx[t]])}]
    /\ attempt' = [attempt EXCEPT ![t] = 1]
    /\ h_count' = Counted(h_count)

\* seeded fault: the lock is given up before the sleep of line 23
UnderLockSleepsUnlocked(t, waiters) ==
    IF elapsed < MinGap
    THEN /\ pc' = [pc EXCEPT ![t] = "sleeping"]
         /\ sleep_left' = [sleep_left EXCEPT ![t] = SleepFor(elapsed)]
         /\ lock_holder' = Released(waiters).holder
         /\ lock_waiters' = Released(waiters).waiters
         /\ UNCHANGED << elapsed, attempt, h_since, h_called, h_count >>
    ELSE Complete(t, waiters)

\* acquire() lines 20-24 with the lock held by t
UnderLock(t, waiters) ==
    IF elapsed < MinGap
    THEN /\ pc' = [pc EXCEPT ![t] = "sleeping"]
         /\ sleep_left' = [sleep_left EXCEPT ![t] = SleepFor(elapsed)]
         /\ lock_holder' = t
         /\ lock_waiters' = waiters
         /\ UNCHANGED << elapsed, attempt, h_since, h_called, h_count >>
    ELSE Complete(t, waiters)

\* acquire() line 19: the lock is taken when it is free and nobody queues for it,
\* else the caller queues
Acquire(t) ==
    /\ h_acquired' = [h_acquired EXCEPT ![t] = @ \cup {Key(images[t][idx[t]])}]
    /\ IF lock_holder = 0 /\ lock_waiters = <<>>
       THEN UnderLock(t, lock_waiters)
       ELSE /\ lock_waiters' = Append(lock_waiters, t)
            /\ pc' = [pc EXCEPT ![t] = "lockwait"]
            /\ UNCHANGED << elapsed, lock_holder, sleep_left, attempt, h_since,
                            h_called, h_count >>

\* a queued caller is resumed holding the lock
LockGranted(t) ==
    /\ pc[t] = "lockwait"
    /\ lock_holder = t
    /\ UnderLock(t, lock_waiters)
    /\ UNCHANGED << registryVars, meta, idx, images, processed_keys, diskVars,
                    h_acquired, h_received, h_window, callVars >>

\* asyncio.sleep returns once its delay has passed
Wake(t) ==
    /\ pc[t] = "sleeping"
    /\ sleep_left[t] = 0
    /\ Complete(t, lock_waiters)
    /\ UNCHANGED << registryVars, meta, idx, images, processed_keys, diskVars,
                    h_acquired, h_received, h_window, callVars >>

\* time.monotonic() advances by the given number of seconds
Tick(seconds) ==
    /\ elapsed' = Min(elapsed + seconds, MinGap)
    /\ h_since' = Min(h_since + seconds, MinGap)
    /\ sleep_left' = [t \in Tasks |-> Max(sleep_left[t] - seconds, 0)]
    /\ h_window' = IF h_window = -1 THEN -1 ELSE Min(h_window + seconds, Minute)
    /\ UNCHANGED << registryVars, taskVars, lock_holder, lock_waiters, diskVars,
                    h_acquired, h_called, h_received, h_count, callVars >>

(* --------------------------- _run_benchmark ---------------------------- *)
\* n file operations raise in this step
Faults(n) ==
    /\ n <= io_faults
    /\ io_faults' = io_faults - n

\* _save_meta(meta)
SaveMeta(m) ==
    /\ meta_file' = [meta_file EXCEPT ![m.run_id] = m]
    /\ exists' = exists \cup {<< m.run_id, "meta" >>}

\* the text of a record of which the process wrote only the first part, up to
\* the raw response, before it ended
Torn(prediction) ==
    [prediction EXCEPT !.parsed = "", !.correct = FALSE, !.latency_ms = 0]

\* Prediction.model_validate_json(line) returns: the line is a whole record
ValidatesJson(line) == line.parsed \in {"yes", "no", "error"}

\* the loop over read_text().strip().split("\n") raises: model_validate_json is
\* called on every non-empty line, the last one included
LoadRaises(lines) == \E i \in 1..Len(lines) : ~ValidatesJson(lines[i])

\* load_predictions(run_id) when it returns
LoadPredictions(run_id) ==
    IF << run_id, "jsonl" >> \notin exists THEN <<>> ELSE jsonl[run_id]

\* seeded fault: the whole list is returned whatever last is
RunPredictionsAll(run_id, last) == LoadPredictions(run_id)

\* GET /api/benchmark/run/{run_id}/predictions?last= : predictions[last:]
RunPredictions(run_id, last) ==
    SubSeq(LoadPredictions(run_id), last + 1, Len(LoadPredictions(run_id)))

\* seeded fault: the resume scan finds nothing
ProcessedKeysNone(lines) == {}

\* the resume scan: the image paths of the records of the run log
ProcessedKeys(lines) == {lines[i].image_path : i \in 1..Len(lines)}

\* seeded fault: the executor does not read the cancellation flag
CancelNeverRequested(run_id) == FALSE

\* if _cancel_flags.get(run_id, False)
CancelRequested(run_id) == _cancel_flags[run_id]

\* seeded fault: no image is taken as recorded
NeverProcessed(key, keys) == FALSE

\* if key in processed_keys
AlreadyProcessed(key, keys) == key \in keys

\* seeded fault: the end of the loop completes the run whatever its status
ExitMetaCompletes(m) == [m EXCEPT !.status = "completed", !.completed_at = "set"]

\* seeded fault: completed_at is written for every run that leaves the loop
ExitMetaStamps(m) ==
    IF m.status = "running"
    THEN [m EXCEPT !.status = "completed", !.completed_at = "set"]
    ELSE [m EXCEPT !.completed_at = "set"]

\* after the loop: if meta.status == RunStatus.running: completed, completed_at
ExitMeta(m) ==
    IF m.status = "running"
    THEN [m EXCEPT !.status = "completed", !.completed_at = "set"]
    ELSE m

\* the counters after a record of a returned call was appended
CountSuccess(m, prediction) ==
    [m EXCEPT !.processed = @ + 1,
              !.correct = IF prediction.correct THEN @ + 1 ELSE @,
              !.errors = IF prediction.parsed = "error" THEN @ + 1 ELSE @]

\* seeded fault: the except branch counts the error but not the image
CountErrorOnly(m) == [m EXCEPT !.errors = @ + 1]

\* the counters after the record of the per-image except branch was appended
CountError(m) == [m EXCEPT !.processed = @ + 1, !.errors = @ + 1]

\* seeded fault: the counters are cleared when the run is marked failed
RunFailedCleared(m) == [m EXCEPT !.status = "failed", !.processed = 0, !.errors = 0]

\* except Exception: meta.status = RunStatus.failed
RunFailed(m) == [m EXCEPT !.status = "failed"]

\* the finally block: _save_meta(meta), which may raise, then client.close();
\* m is meta as the try or except block left it, raised the file operations
\* that raised earlier in the step
Finish(t, m, raised) ==
    /\ meta' = [meta EXCEPT ![t] = m]
    /\ pc' = [pc EXCEPT ![t] = "done"]
    /\ \/ SaveMeta(m) /\ Faults(raised)
       \/ UNCHANGED << meta_file, exists >> /\ Faults(raised + 1)

\* lines 217-230, outside the try: status running, first snapshot, resume scan.
\* An exception of _save_meta or of the scan (a file operation that raises, or
\* a line that is no record) ends the task where it stands.
Begin(t) ==
    /\ pc[t] = "created"
    /\ LET m == [meta[t] EXCEPT !.status = "running"]
           rid == m.run_id
       IN  /\ meta' = [meta EXCEPT ![t] = m]
           /\ \/ /\ << rid, "jsonl" >> \in exists => ~LoadRaises(jsonl[rid])
                 /\ SaveMeta(m)
                 /\ pc' = [pc EXCEPT ![t] = "loop"]
                 /\ processed_keys' = [processed_keys EXCEPT ![t] =
                        IF << rid, "jsonl" >> \in exists
                        THEN ProcessedKeys(jsonl[rid]) ELSE {}]
                 /\ Faults(0)
              \/ /\ UNCHANGED << meta_file, exists, processed_keys >>
                 /\ pc' = [pc EXCEPT ![t] = "dead"]
                 /\ Faults(1)
              \/ /\ << rid, "jsonl" >> \in exists
                 /\ SaveMeta(m)
                 /\ pc' = [pc EXCEPT ![t] = "dead"]
                 /\ Faults(1)
                 /\ UNCHANGED processed_keys
              \/ /\ << rid, "jsonl" >> \in exists
                 /\ LoadRaises(jsonl[rid])
                 /\ SaveMeta(m)
                 /\ pc' = [pc EXCEPT ![t] = "dead"]
                 /\ Faults(0)
                 /\ UNCHANGED processed_keys
    /\ UNCHANGED << registryVars, idx, attempt, images, limiterVars, jsonl, queue_file,
                    histVars, callVars >>

\* seeded fault: acquire() is called before the cancellation flag and the
\* recorded keys are looked at
LoopTopAcquiresFirst(t) ==
    /\ pc[t] = "loop"
    /\ IF idx[t] > Len(images[t])
       THEN /\ Finish(t, ExitMeta(meta[t]), 0)
            /\ UNCHANGED << idx, attempt, limiterVars, histVars, callVars >>
       ELSE /\ Acquire(t)
            /\ UNCHANGED << meta, idx, meta_file, exists, io_faults, h_received,
                            h_window, callVars >>
    /\ UNCHANGED << registryVars, images, processed_keys, jsonl, queue_file >>

\* the head of one loop iteration (lines 233-244), or the end of the loop
LoopTop(t) ==
    /\ pc[t] = "loop"
    /\ LET m == meta[t]
           rid == m.run_id
       IN  IF idx[t] > Len(images[t])
           THEN /\ Finish(t, ExitMeta(m), 0)
                /\ UNCHANGED << idx, attempt, limiterVars, histVars, callVars >>
           ELSE IF CancelRequested(rid)
           THEN /\ Finish(t, ExitMeta([m EXCEPT !.status = "cancelled"]), 0)
                /\ UNCHANGED << idx, attempt, limiterVars, histVars, callVars >>
           ELSE IF AlreadyProcessed(Key(images[t][idx[t]]), processed_keys[t])
           THEN /\ meta' = [meta EXCEPT ![t].processed = @ + 1]
                /\ idx' = [idx EXCEPT ![t] = @ + 1]
                /\ UNCHANGED << pc, attempt, limiterVars, meta_file, exists, io_faults,
                                histVars, callVars >>
           ELSE /\ Acquire(t)
                /\ UNCHANGED << meta, idx, meta_file, exists, io_faults, h_received,
                                h_window, callVars >>
    /\ UNCHANGED << registryVars, images, processed_keys, jsonl, queue_file >>

\* seeded fault: the record is written at the head of the log
AppendLineAtHead(run_id, prediction) ==
    /\ jsonl' = [jsonl EXCEPT ![run_id] = << prediction >> \o @]
    /\ exists' = exists \cup {<< run_id, "jsonl" >>}

\* with open(jsonl_path, "a") as f: f.write(prediction.model_dump_json() + "\n")
AppendLine(run_id, prediction) ==
    /\ jsonl' = [jsonl EXCEPT ![run_id] = Append(@, prediction)]
    /\ exists' = exists \cup {<< run_id, "jsonl" >>}

\* lines 247-286: classify_image returns one of the given texts and the record
\* is appended
ReturnedWith(t, texts) ==
    /\ pc[t] = "classify"
    /\ \E raw \in texts, latency \in Latencies :
          LET prediction == SuccessPrediction(images[t][idx[t]], raw, latency)
          IN  /\ AppendLine(meta[t].run_id, prediction)
              /\ meta' = [meta EXCEPT ![t] = CountSuccess(@, prediction)]
    /\ pc' = [pc EXCEPT ![t] = "save"]
    /\ UNCHANGED << registryVars, idx, attempt, images, processed_keys, limiterVars,
                    meta_file, queue_file, io_faults, histVars, callVars >>

Returned(t) == ReturnedWith(t, RawResponses)

\* seeded fault: the snapshot after the image is not written
SnapshotSkipped(t) ==
    /\ pc[t] = "save"
    /\ idx' = [idx EXCEPT ![t] = @ + 1]
    /\ pc' = [pc EXCEPT ![t] = "loop"]
    /\ UNCHANGED << registryVars, meta, attempt, images, processed_keys, limiterVars,
                    diskVars,
                    histVars, callVars >>

\* seeded fault: an exception of classify_image ends the run as failed
PerImageErrorFailsRun(t) ==
    /\ pc[t] = "classify"
    /\ Finish(t, RunFailed(meta[t]), 0)
    /\ UNCHANGED << registryVars, idx, attempt, images, processed_keys, limiterVars,
                    jsonl, queue_file, histVars, callVars >>

\* lines 288-302: classify_image raised (a message of GatewayErrors), or it
\* returned and the append of line 279 raised (AppendError); the except branch
\* appends the error record
PerImageError(t) ==
    /\ pc[t] = "classify"
    /\ \E message \in GatewayErrors \cup {AppendError} :
          /\ AppendLine(meta[t].run_id, ErrorPrediction(images[t][idx[t]], message))
          /\ Faults(IF message = AppendError THEN 1 ELSE 0)
    /\ meta' = [meta EXCEPT ![t] = CountError(@)]
    /\ pc' = [pc EXCEPT ![t] = "save"]
    /\ UNCHANGED << registryVars, idx, attempt, images, processed_keys, limiterVars,
                    meta_file, queue_file, histVars, callVars >>

\* seeded fault: the exception of the append of line 299 is swallowed and the
\* executor goes on to the snapshot
ErrorAppendSwallowed(t) ==
    /\ pc[t] = "classify"
    /\ Faults(1)
    /\ pc' = [pc EXCEPT ![t] = "save"]
    /\ UNCHANGED << registryVars, meta, idx, attempt, images, processed_keys, limiterVars,
                    exists, meta_file, jsonl, queue_file, histVars, callVars >>

\* the append of line 299 raises inside the except branch (after classify_image
\* raised, or after the append of line 279 raised): lines 310-314
ErrorAppendRaises(t) ==
    /\ pc[t] = "classify"
    /\ \E raised \in {1, 2} : Finish(t, RunFailed(meta[t]), raised)
    /\ UNCHANGED << registryVars, idx, attempt, images, processed_keys, limiterVars,
                    jsonl, queue_file, histVars, callVars >>

\* line 304: the snapshot after the image; if it raises, lines 310-314
Snapshot(t) ==
    /\ pc[t] = "save"
    /\ \/ /\ SaveMeta(meta[t])
          /\ idx' = [idx EXCEPT ![t] = @ + 1]
          /\ pc' = [pc EXCEPT ![t] = "loop"]
          /\ UNCHANGED << meta, io_faults, attempt >>
       \/ /\ Finish(t, RunFailed(meta[t]), 1)
          /\ UNCHANGED << idx, attempt >>
    /\ UNCHANGED << registryVars, images, processed_keys, limiterVars, jsonl,
                    queue_file, histVars, callVars >>

(* ------------------- cancel_run, cancel_batch, clear_history ----------- *)
Active == {"pending", "running"}

\* seeded fault: the flag of every registered run is set
CancelledEvery(ids) ==
    [r \in RunIds |-> IF ids # {} /\ _active_runs[r] # 0 THEN TRUE ELSE _cancel_flags[r]]

\* _cancel_flags after cancel_run(run_id) for each run id of ids
Cancelled(ids) ==
    [r \in RunIds |-> IF r \in ids /\ _active_runs[r] # 0 THEN TRUE ELSE _cancel_flags[r]]

\* the value cancel_run(run_id) returns: run_id in _active_runs
CancelRunReturns(run_id) == _active_runs[run_id] # 0

\* seeded fault: cancel_run writes the status of the run itself
CancelRunSetsStatus(run_id) ==
    /\ _cancel_flags' = Cancelled({run_id})
    /\ meta' = [t \in Tasks |->
                  IF _active_runs[run_id] = t
                  THEN [meta[t] EXCEPT !.status = "cancelled"] ELSE meta[t]]
    /\ UNCHANGED << _active_runs, _active_batches, pc, idx, attempt, images,
                    processed_keys,
                    limiterVars, diskVars, histVars, callVars >>

\* POST /api/benchmark/run/{run_id}/cancel -> cancel_run(run_id)
CancelRun(run_id) ==
    /\ _cancel_flags' = Cancelled({run_id})
    /\ UNCHANGED << _active_runs, _active_batches, taskVars, limiterVars, diskVars,
                    histVars, callVars >>

\* POST /api/benchmark/batch-run/{batch_id}/cancel -> cancel_batch(batch_id)
CancelBatch(batch_id) ==
    /\ _cancel_flags' = Cancelled(IF _active_batches[batch_id] = {} THEN {}
                                  ELSE DictValues(_active_batches[batch_id]))
    /\ UNCHANGED << _active_runs, _active_batches, taskVars, limiterVars, diskVars,
                    histVars, callVars >>

\* the run ids clear_history removes: a snapshot on disk, not registered in memory
Cleared ==
    {r \in RunIds : << r, "meta" >> \in exists /\ _active_runs[meta_file[r].run_id] = 0}

\* DELETE /api/benchmark/runs -> clear_history()
ClearHistory ==
    /\ exists' = {f \in exists : f[1] \notin Cleared}
    /\ meta_file' = [r \in RunIds |-> IF r \in Cleared THEN NoMeta ELSE meta_file[r]]
    /\ jsonl' = [r \in RunIds |-> IF r \in Cleared THEN <<>> ELSE jsonl[r]]
    /\ queue_file' = [r \in RunIds |-> IF r \in Cleared THEN <<>> ELSE queue_file[r]]
    /\ UNCHANGED << registryVars, taskVars, limiterVars, io_faults, histVars, callVars >>

\* clear_history as the worker thread runs it beside the event loop.
\* line 71: the snapshots of the directory are listed
ClearBegins ==
    /\ ~clearing.on
    /\ clearing' = [on |-> TRUE, todo |-> {r \in RunIds : << r, "meta" >> \in exists},
                    current |-> 0]
    /\ UNCHANGED << registryVars, taskVars, limiterVars, diskVars, histVars,
                    call_args, call_ret, voteVars >>

\* lines 72-77 for one listed snapshot: a snapshot that cannot be read and one
\* of a registered run are passed over
ClearReads(r) ==
    /\ clearing.on
    /\ clearing.current = 0
    /\ r \in clearing.todo
    /\ clearing' = [clearing EXCEPT
          !.todo = @ \ {r},
          !.current = IF << r, "meta" >> \in exists /\ _active_runs[meta_file[r].run_id] = 0
                      THEN meta_file[r].run_id ELSE 0]
    /\ UNCHANGED << registryVars, taskVars, limiterVars, diskVars, histVars,
                    call_args, call_ret, voteVars >>

\* lines 78-82: the files of the run are unlinked
ClearUnlinks ==
    /\ clearing.current # 0
    /\ LET r == clearing.current
       IN  /\ exists' = {f \in exists : f[1] # r}
           /\ meta_file' = [meta_file EXCEPT ![r] = NoMeta]
           /\ jsonl' = [jsonl EXCEPT ![r] = <<>>]
           /\ queue_file' = [queue_file EXCEPT ![r] = <<>>]
    /\ clearing' = [clearing EXCEPT !.current = 0]
    /\ UNCHANGED << registryVars, taskVars, limiterVars, io_faults, histVars,
                    call_args, call_ret, voteVars >>

\* line 84: clear_history returns
ClearEnds ==
    /\ clearing.on
    /\ clearing.todo = {}
    /\ clearing.current = 0
    /\ clearing' = NoClear
    /\ UNCHANGED << registryVars, taskVars, limiterVars, diskVars, histVars,
                    call_args, call_ret, voteVars >>

(* --------------------- classify_image: the retries --------------------- *)
\* retries = [2, 5, 10]
Retries == << 2, 5, 10 >>

\* lines 83-99: the request times out or is answered 429, 402, 502 or 503 and an
\* attempt is left: asyncio.sleep(retries[attempt])
Transient(t) ==
    /\ pc[t] = "classify"
    /\ attempt[t] <= Len(Retries)
    /\ pc' = [pc EXCEPT ![t] = "backoff"]
    /\ sleep_left' = [sleep_left EXCEPT ![t] = Retries[attempt[t]]]
    /\ UNCHANGED << registryVars, meta, idx, images, processed_keys, attempt, elapsed,
                    lock_holder, lock_waiters, diskVars, histVars, callVars >>

\* lines 75-82: the sleep is over and the next round of the loop posts the request
Repost(t) ==
    /\ pc[t] = "backoff"
    /\ sleep_left[t] = 0
    /\ pc' = [pc EXCEPT ![t] = "classify"]
    /\ attempt' = [attempt EXCEPT ![t] = @ + 1]
    /\ h_count' = Counted(h_count)
    /\ UNCHANGED << registryVars, meta, idx, images, processed_keys, limiterVars,
                    diskVars, h_since, h_acquired, h_called, h_received, h_window,
                    callVars >>

\* lines 87-90, 101-103: the last attempt fails too and classify_image raises
Exhausted(t) ==
    /\ attempt[t] = Len(Retries) + 1
    /\ PerImageError(t)

(* --------------------------- process restart --------------------------- *)
\* The process ends (every task with it) and a new one starts: the module state
\* of test_runner.py and rate_limiter.py is initialised again, the results
\* directory is kept.  A task slot is not used again.
ProcessEnds ==
    /\ \E t \in Tasks : pc[t] \notin {"none", "gone"}
    /\ _active_runs' = [r \in RunIds |-> 0]
    /\ _cancel_flags' = [r \in RunIds |-> FALSE]
    /\ _active_batches' = [b \in BatchIds |-> {}]
    /\ pc' = [t \in Tasks |-> IF pc[t] = "none" THEN "none" ELSE "gone"]
    /\ meta' = [t \in Tasks |-> NoMeta]
    /\ idx' = [t \in Tasks |-> 1]
    /\ attempt' = [t \in Tasks |-> 0]
    /\ images' = [t \in Tasks |-> <<>>]
    /\ processed_keys' = [t \in Tasks |-> {}]
    /\ elapsed' = MinGap
    /\ lock_holder' = 0
    /\ lock_waiters' = <<>>
    /\ sleep_left' = [t \in Tasks |-> 0]
    /\ h_since' = MinGap
    /\ h_acquired' = [t \in Tasks |-> {}]
    /\ h_called' = [t \in Tasks |-> {}]
    /\ UNCHANGED << h_received, h_window, h_count, callVars >>

Restart ==
    /\ ProcessEnds
    /\ UNCHANGED diskVars

\* the process ends inside f.write of line 280: the first part of the line is in
\* the run log
CrashMidWrite(t) ==
    /\ pc[t] = "classify"
    /\ \E raw \in RawResponses, latency \in Latencies :
          AppendLine(meta[t].run_id,
                     Torn(SuccessPrediction(images[t][idx[t]], raw, latency)))
    /\ ProcessEnds
    /\ UNCHANGED << meta_file, queue_file, io_faults >>

(* --------------------------- services/metrics.py ----------------------- *)
\* Floats are kept as integers: a ratio that the code rounds to 4 places is the
\* number of its ten-thousandths.
Places == 10000

\* a / b rounded to a whole number, for a >= 0 and b > 0; a half is rounded up
RoundDiv(a, b) ==
    LET q == a \div b
    IN  IF 2 * (a - q * b) >= b THEN q + 1 ELSE q

\* round(num / den, 4) for den > 0; the half of a ten-thousandth, which Python
\* rounds to the even neighbour, needs a denominator that 32 divides
Round4(num, den) == RoundDiv(Places * num, den)

\* tp, tn, fp, fn, errors after the loop of lines 88-103
Tally(predictions) ==
    LET F[i \in 0..Len(predictions)] ==
            IF i = 0 THEN [tp |-> 0, tn |-> 0, fp |-> 0, fn |-> 0, errors |-> 0]
            ELSE LET p == predictions[i]
                     c == F[i - 1]
                     is_hot_dog == p.category = "hot_dog"
                     predicted_hot_dog == p.parsed = "yes"
                 IN  IF p.parsed = "error" THEN [c EXCEPT !.errors = @ + 1]
                     ELSE IF is_hot_dog /\ predicted_hot_dog THEN [c EXCEPT !.tp = @ + 1]
                     ELSE IF ~is_hot_dog /\ ~predicted_hot_dog THEN [c EXCEPT !.tn = @ + 1]
                     ELSE IF ~is_hot_dog /\ predicted_hot_dog THEN [c EXCEPT !.fp = @ + 1]
                     ELSE [c EXCEPT !.fn = @ + 1]
    IN  F[Len(predictions)]

\* lines 105-126 for the counts c; total is that of line 105
MetricsOf(c) ==
    LET total == c.tp + c.tn + c.fp + c.fn
        pd == c.tp + c.fp
        rd == c.tp + c.fn
    IN  [accuracy |-> IF total > 0 THEN Round4(c.tp + c.tn, total) ELSE 0,
         precision |-> IF pd > 0 THEN Round4(c.tp, pd) ELSE 0,
         recall |-> IF rd > 0 THEN Round4(c.tp, rd) ELSE 0,
         \* 2 * precision * recall / (precision + recall), with
         \* precision = tp / pd and recall = tp / rd
         f1 |-> IF c.tp > 0
                THEN Round4(2 * c.tp * c.tp * (pd * rd), (pd * rd) * (c.tp * rd + c.tp * pd))
                ELSE 0,
         true_positives |-> c.tp, true_negatives |-> c.tn,
         false_positives |-> c.fp, false_negatives |-> c.fn,
         total |-> total, errors |-> c.errors]

\* seeded fault: the records with the verdict error are left out of total
ComputeMetricsValidOnly(predictions) == MetricsOf(Tally(predictions))

\* compute_metrics(predictions)
ComputeMetrics(predictions) ==
    [MetricsOf(Tally(predictions)) EXCEPT !.total = @ + Tally(predictions).errors]

\* the largest r with r * r <= k, for 0 <= k < 2^31
Isqrt(k) ==
    LET F[n \in 0..16] ==
            \* << lo, hi >> after n halvings of the range 0..46340
            IF n = 0 THEN << 0, 46340 >>
            ELSE LET range == F[n - 1]
                     lo == range[1]
                     hi == range[2]
                     mid == (lo + hi + 1) \div 2
                 IN  IF lo = hi THEN << lo, hi >>
                     ELSE IF mid * mid <= k THEN << mid, hi >> ELSE << lo, mid - 1 >>
    IN  F[16][1]

\* z = 1.96 in hundredths, z * z in ten-thousandths
Z100 == 196
ZZ == Z100 * Z100

\* seeded fault: lower and upper are not divided by denom
WilsonUndivided(successes, total) ==
    IF total = 0 THEN << 0, 0 >>
    ELSE LET root == Isqrt(((4 * successes * (total - successes) * Places + ZZ * total)
                              \div total) * Places)
             \* z * sqrt(x) and 2 * successes + z*z in millionths
             spread == Z100 * root
             centre == (2 * successes * Places + ZZ) * 100
             den == 2 * total * Places
             lower == IF centre < spread THEN 0 ELSE RoundDiv((centre - spread) * 100, den)
             upper == RoundDiv((centre + spread) * 100, den)
         IN  << lower, IF upper > Places THEN Places ELSE upper >>

\* wilson_ci(successes, total, z = 1.96), both bounds in ten-thousandths.  With
\* p = successes / total the code's lower and upper are
\*   (2 * successes + z*z -/+ z * sqrt(x)) / (2 * (total + z*z)),
\*   x = (4 * successes * (total - successes) + z*z * total) / total;
\* root is sqrt(x) in ten-thousandths, cut to a whole number of them.
WilsonCI(successes, total) ==
    IF total = 0 THEN << 0, 0 >>
    ELSE LET root == Isqrt(((4 * successes * (total - successes) * Places + ZZ * total)
                              \div total) * Places)
             \* z * sqrt(x) and 2 * successes + z*z in millionths
             spread == Z100 * root
             centre == (2 * successes * Places + ZZ) * 100
             den == 2 * (total * Places + ZZ)
             lower == IF centre < spread THEN 0 ELSE RoundDiv((centre - spread) * 100, den)
             upper == RoundDiv((centre + spread) * 100, den)
         IN  << lower, IF upper > Places THEN Places ELSE upper >>

\* seeded fault: the latencies of the records with the verdict error are kept
LatenciesOfAll(predictions) == [i \in 1..Len(predictions) |-> predictions[i].latency_ms]

\* line 59: the latencies of the records whose verdict is not error
LatenciesOf(predictions) ==
    LET valid == SelectSeq(predictions, LAMBDA q : q.parsed # "error")
    IN  [i \in 1..Len(valid) |-> valid[i].latency_ms]

\* sorted(latencies)
RECURSIVE SortedSeq(_)
SortedSeq(seq) ==
    IF seq = <<>> THEN <<>>
    ELSE LET least == CHOOSE i \in 1..Len(seq) : \A j \in 1..Len(seq) : seq[i] <= seq[j]
         IN  << seq[least] >> \o
             SortedSeq([k \in 1..(Len(seq) - 1) |-> IF k < least THEN seq[k] ELSE seq[k + 1]])
RECURSIVE SumSeq(_)
SumSeq(seq) == IF seq = <<>> THEN 0 ELSE Head(seq) + SumSeq(Tail(seq))

\* lines 59-69: mean, median and 95th percentile in tenths of a millisecond,
\* all 0 when no record is left
LatencyStats(latencies) ==
    IF latencies = <<>>
    THEN [mean_ms |-> 0, median_ms |-> 0, p95_ms |-> 0]
    ELSE LET n == Len(latencies)
             sorted == SortedSeq(latencies)
             p95_idx == ((95 * n + 99) \div 100) - 1
         IN  [mean_ms |-> RoundDiv(10 * SumSeq(latencies), n),
              median_ms |-> IF n % 2 = 1 THEN 10 * sorted[(n + 1) \div 2]
                            ELSE RoundDiv(10 * (sorted[n \div 2] + sorted[n \div 2 + 1]), 2),
              p95_ms |-> 10 * sorted[Max(0, p95_idx) + 1]]

\* compute_enhanced_metrics without the breakdown by category
ComputeEnhancedMetrics(predictions) ==
    LET metrics == ComputeMetrics(predictions)
        ci == WilsonCI(metrics.true_positives + metrics.true_negatives,
                       metrics.total - metrics.errors)
    IN  [metrics |-> metrics, ci_lower |-> ci[1], ci_upper |-> ci[2],
         latency |-> LatencyStats(LatenciesOf(predictions))]

\* classify_image (openrouter_client.py 71-118) as a function of the answers
\* the gateway gives to the requests it posts, one after the other: Timeout for
\* httpx.TimeoutException, else the status code of the response
Timeout == 0
TransientStatuses == {429, 402, 502, 503}

\* seeded fault: every error status is retried while attempts are left
RECURSIVE PostRetriesAll(_, _, _)
PostRetriesAll(answers, round, waits) ==
    LET answer == answers[round]
        ended(kind) == [kind |-> kind, posts |-> round, waits |-> waits]
    IN  IF answer = Timeout
        THEN IF round <= Len(Retries)
             THEN PostRetriesAll(answers, round + 1, Append(waits, Retries[round]))
             ELSE ended("raised")
        ELSE IF answer >= 400 /\ round <= Len(Retries)
        THEN PostRetriesAll(answers, round + 1, Append(waits, Retries[round]))
        ELSE IF answer >= 400 THEN ended("raised")
        ELSE ended("returned")
ClassifyImageRetriesAll(answers) == PostRetriesAll(answers, 1, <<>>)

\* the round of the for loop of line 75 numbered round (from 1, the attempt of the source plus 1), after the
\* sleeps waits
RECURSIVE Post(_, _, _)
Post(answers, round, waits) ==
    LET answer == answers[round]
        ended(kind) == [kind |-> kind, posts |-> round, waits |-> waits]
    IN  IF answer = Timeout
        THEN IF round <= Len(Retries)
             THEN Post(answers, round + 1, Append(waits, Retries[round]))
             ELSE ended("raised")
        ELSE IF answer \in TransientStatuses /\ round <= Len(Retries)
        THEN Post(answers, round + 1, Append(waits, Retries[round]))
        ELSE IF answer >= 400 THEN ended("raised")
        ELSE ended("returned")
ClassifyImage(answers) == Post(answers, 1, <<>>)

\* a function of metrics.py or classify_image is called with arguments args
Call(name, args) ==
    /\ call_args' = << name, args >>
    /\ call_ret' = <<>>
    /\ UNCHANGED << registryVars, taskVars, limiterVars, diskVars, histVars, clearing,
                    voteVars >>

\* the call returns
Return ==
    /\ call_args # <<>>
    /\ call_ret = <<>>
    /\ call_ret' = IF call_args[1] = "compute_metrics"
                   THEN << ComputeMetrics(call_args[2]) >>
                   ELSE IF call_args[1] = "compute_enhanced_metrics"
                   THEN << ComputeEnhancedMetrics(call_args[2]) >>
                   ELSE IF call_args[1] = "classify_image"
                   THEN << ClassifyImage(call_args[2]) >>
                   ELSE << WilsonCI(call_args[2][1], call_args[2][2]) >>
    /\ UNCHANGED << registryVars, taskVars, limiterVars, diskVars, histVars, call_args,
                    clearing, voteVars >>

(* ------------------------------ clients -------------------------------- *)
\* an observer of the gateway begins to count the requests of one minute
Watch ==
    /\ h_window = -1
    /\ h_window' = 0
    /\ h_count' = 0
    /\ UNCHANGED << registryVars, taskVars, limiterVars, diskVars, h_since, h_acquired,
                    h_called, h_received, callVars >>

\* get_run(run_id) is not None
RunFound(run_id) == _active_runs[run_id] # 0 \/ << run_id, "meta" >> \in exists

\* one poll of a client that asks for the records after those it was given
Poll(run_id) ==
    /\ RunFound(run_id)
    /\ ~LoadRaises(LoadPredictions(run_id))
    /\ h_received' = [h_received EXCEPT ![run_id] = @ \o RunPredictions(run_id, Len(@))]
    /\ UNCHANGED << registryVars, taskVars, limiterVars, diskVars,
                    h_since, h_acquired, h_called, h_window, h_count, callVars >>

(* --------------------------- specifications ---------------------------- *)
\* uuid4 draws: identifiers not registered in this process.  A draw may still
\* name files an earlier process left in the results directory.
FreshRunIds == {r \in RunIds : _active_runs[r] = 0}
FreshBatchIds == {b \in BatchIds : _active_batches[b] = {}}
DistinctDraws(n) ==
    {s \in [1..n -> FreshRunIds] : \A i, j \in 1..n : i # j => s[i] # s[j]}

\* no run has been started in this process
Fresh == \A r \in RunIds : _active_runs[r] = 0

Cancels ==
    \/ \E run_id \in RunIds : CancelRun(run_id)
    \/ \E batch_id \in BatchIds : CancelBatch(batch_id)

\* the steps of the task of one run
Executor(t) ==
    \/ Begin(t)
    \/ LoopTop(t)
    \/ Wake(t)
    \/ Returned(t)
    \/ PerImageError(t)
    \/ Snapshot(t)

\* Spec: processes that follow one another on one results directory.  Each
\* serves one start request (a run of a configured model, or a batch of one
\* model that is not configured) and any cancel and clear requests; its file
\* operations may raise.  Time passes in steps of the minimum gap.
Next ==
    \/ \E run_id \in FreshRunIds, model_id \in {MODELS[1]}, sample_size \in SampleSizes :
          Fresh /\ StartRun(run_id, model_id, sample_size)
    \/ \E batch_id \in FreshBatchIds, sample_size \in SampleSizes,
          rids \in DistinctDraws(1) :
          Fresh /\ StartBatchRun(batch_id, rids, sample_size, << << UnlistedModel >> >>)
    \/ Cancels
    \/ ClearHistory
    \/ \E t \in Tasks : Executor(t) \/ ErrorAppendRaises(t)
    \/ Tick(MinGap)
    \/ Restart

Spec == Init /\ [][Next]_vars

\* SpecConcurrent: one process over a results directory whose file operations
\* never raise, serving any number of single runs side by side.  Time passes
\* second by second.
InitReliable == FreshProcess(0)

NextConcurrent ==
    \/ \E run_id \in FreshRunIds, model_id \in {MODELS[1]}, sample_size \in SampleSizes :
          StartRun(run_id, model_id, sample_size)
    \/ \E run_id \in RunIds : CancelRun(run_id)
    \/ \E t \in Tasks : Executor(t) \/ LockGranted(t)
    \/ Tick(1)

SpecConcurrent == InitReliable /\ [][NextConcurrent]_vars

\* SpecFair: SpecConcurrent where the event loop resumes every task that can
\* run and time goes on, so that rate-limiter waits and gateway calls end.
SpecFair ==
    /\ SpecConcurrent
    /\ \A t \in Tasks : WF_vars(Executor(t) \/ LockGranted(t))
    /\ WF_vars(Tick(1))

\* One process over a reliable disk in which batches of every kind of request
\* and single runs are started: no list, the empty list, lists of one and of two
\* model ids, a model id twice.
BatchRequests ==
    {<<>>, << <<>> >>, << << UnlistedModel >> >>,
     << << UnlistedModel, UnlistedModel >> >>}
NextBatch ==
    \/ \E batch_id \in FreshBatchIds, sample_size \in SampleSizes,
          model_ids \in BatchRequests :
          \E rids \in DistinctDraws(Len(Selected(model_ids))) :
             StartBatchRun(batch_id, rids, sample_size, model_ids)
    \/ \E run_id \in FreshRunIds, model_id \in RequestModels, sample_size \in SampleSizes :
          Fresh /\ StartRun(run_id, model_id, sample_size)
    \/ \E batch_id \in BatchIds : CancelBatch(batch_id)
    \/ \E t \in Tasks : Executor(t) \/ LockGranted(t)
    \/ Tick(MinGap)
SpecBatch == InitReliable /\ [][NextBatch]_vars

\* One run in one process, file operations that may raise, and a client that
\* polls its predictions.
NextPoll ==
    \/ \E run_id \in FreshRunIds, model_id \in RequestModels, sample_size \in SampleSizes :
          Fresh /\ StartRun(run_id, model_id, sample_size)
    \/ \E run_id \in RunIds : CancelRun(run_id)
    \/ \E t \in Tasks : Executor(t) \/ ErrorAppendRaises(t)
    \/ Tick(MinGap)
    \/ \E run_id \in RunIds : Poll(run_id)
SpecPoll == Init /\ [][NextPoll]_vars

\* Processes over a reliable disk that may end inside the write of a log line.
NextTorn ==
    \/ \E run_id \in FreshRunIds, model_id \in {MODELS[1]}, sample_size \in SampleSizes :
          Fresh /\ StartRun(run_id, model_id, sample_size)
    \/ \E t \in Tasks : Executor(t) \/ CrashMidWrite(t)
    \/ Tick(MinGap)
    \/ Restart
SpecTorn == InitReliable /\ [][NextTorn]_vars

\* A process in which every task slot holds a run started over a test split of
\* RetryHot and RetryNot files, and a gateway that is down: every request is
\* answered 503 at once.  A step of a task takes no time: a second passes when
\* every task sleeps or queues.  With these delays no task queues for the lock
\* that another one holds.
RetryHot == 2
RetryNot == 1
RetryQueue == ListImages(RetryHot, RetryNot, <<>>)
RetryStarts ==
    LET S0 == [ar |-> [r \in RunIds |-> 0], cf |-> [r \in RunIds |-> FALSE],
               meta |-> [t \in Tasks |-> NoMeta], pc |-> [t \in Tasks |-> "none"],
               images |-> [t \in Tasks |-> <<>>], exists |-> {},
               meta_file |-> [r \in RunIds |-> NoMeta],
               queue_file |-> [r \in RunIds |-> <<>>]]
        F[i \in 0..MaxRuns] ==
            IF i = 0 THEN S0
            ELSE StartRunIn(F[i - 1], i, MODELS[1], NoBatch, RetryQueue)
    IN  F[MaxRuns]
InitRetry ==
    /\ _active_runs = RetryStarts.ar
    /\ _cancel_flags = RetryStarts.cf
    /\ _active_batches = [b \in BatchIds |-> {}]
    /\ meta = RetryStarts.meta
    /\ pc = RetryStarts.pc
    /\ idx = [t \in Tasks |-> 1]
    /\ images = RetryStarts.images
    /\ processed_keys = [t \in Tasks |-> {}]
    /\ attempt = [t \in Tasks |-> 0]
    /\ elapsed = MinGap
    /\ lock_holder = 0
    /\ lock_waiters = <<>>
    /\ sleep_left = [t \in Tasks |-> 0]
    /\ exists = RetryStarts.exists
    /\ meta_file = RetryStarts.meta_file
    /\ jsonl = [r \in RunIds |-> <<>>]
    /\ queue_file = RetryStarts.queue_file
    /\ io_faults = 0
    /\ h_since = MinGap
    /\ h_acquired = [t \in Tasks |-> {}]
    /\ h_called = [t \in Tasks |-> {}]
    /\ h_received = [r \in RunIds |-> <<>>]
    /\ h_window = -1
    /\ h_count = 0
    /\ call_args = <<>>
    /\ call_ret = <<>>
    /\ clearing = NoClear
    /\ battle_file = {}
    /\ votes_file = <<>>
    /\ vote_calls = [i \in VoteCalls |-> NoVoteCall]

\* task t waits for time to pass or for the lock, or has ended
Blocked(t) ==
    \/ pc[t] \in {"none", "done", "dead", "gone"}
    \/ pc[t] \in {"sleeping", "backoff"} /\ sleep_left[t] > 0
    \/ pc[t] = "lockwait" /\ lock_holder # t
Idle ==
    /\ \A t \in Tasks : Blocked(t)
    /\ \E t \in Tasks : sleep_left[t] > 0

NextRetry ==
    \/ \E t \in Tasks :
          \/ Begin(t)
          \/ LoopTop(t)
          \/ Wake(t)
          \/ Transient(t)
          \/ Repost(t)
          \/ Exhausted(t)
          \/ Snapshot(t)
    \/ Watch
    \/ Idle /\ Tick(1)
SpecRetry == InitRetry /\ [][NextRetry]_vars

\* The calls of metrics.py: compute_metrics on every list of at most
\* MaxPredictions records, a record for each category and verdict, and wilson_ci
\* on every number of successes out of at most MaxTotal.
MaxPredictions == 5
MaxTotal == 4
MetricRecord(category, parsed) ==
    [image_path |-> << "test", category, 1 >>, category |-> category,
     raw_response |-> "", parsed |-> parsed, correct |-> IsCorrect(parsed, category),
     latency_ms |-> 250]
MetricRecords ==
    {MetricRecord(category, parsed) :
        category \in {"hot_dog", "not_hot_dog"}, parsed \in {"yes", "no", "error"}}
PredictionLists == UNION {[1..n -> MetricRecords] : n \in 0..MaxPredictions}
NextMetrics ==
    \/ \E predictions \in PredictionLists :
          call_args = <<>> /\ Call("compute_metrics", predictions)
    \/ \E total \in 0..MaxTotal : \E successes \in 0..total :
          call_args = <<>> /\ Call("wilson_ci", << successes, total >>)
    \/ Return
SpecMetrics == InitReliable /\ [][NextMetrics]_vars

\* SpecVerdicts: one process on a reliable disk that serves one run, whose
\* gateway calls return a text with either verdict or with none, or raise.
VerdictTexts == {"Answer: yes", "Answer: no", ""}
NextVerdicts ==
    \/ \E run_id \in FreshRunIds, sample_size \in SampleSizes :
          Fresh /\ StartRun(run_id, MODELS[1], sample_size)
    \/ \E t \in Tasks :
          \/ Begin(t)
          \/ LoopTop(t)
          \/ Wake(t)
          \/ ReturnedWith(t, VerdictTexts)
          \/ PerImageError(t)
          \/ Snapshot(t)
    \/ Tick(1)
SpecVerdicts == InitReliable /\ [][NextVerdicts]_vars

\* SpecFrame: one process whose file operations may raise, serving single runs
\* side by side and requests to cancel them.
NextFrame ==
    \/ \E run_id \in FreshRunIds, sample_size \in SampleSizes :
          StartRun(run_id, MODELS[1], sample_size)
    \/ \E run_id \in RunIds : CancelRun(run_id)
    \/ \E t \in Tasks : Executor(t) \/ ErrorAppendRaises(t) \/ LockGranted(t)
    \/ Tick(MinGap)
SpecFrame == Init /\ [][NextFrame]_vars

\* SpecCollide: one process on a reliable disk in which uuid4()[:8] may return
\* any identifier, one a run of the process already has included.
NextCollide ==
    \/ \E run_id \in RunIds, sample_size \in SampleSizes :
          StartRun(run_id, MODELS[1], sample_size)
    \/ \E run_id \in RunIds : CancelRun(run_id)
    \/ \E t \in Tasks : Executor(t) \/ LockGranted(t)
    \/ Tick(MinGap)
SpecCollide == InitReliable /\ [][NextCollide]_vars

\* the counters the records of a log give
Rederived(lines) ==
    << Len(lines),
       Cardinality({i \in 1..Len(lines) : lines[i].correct}),
       Cardinality({i \in 1..Len(lines) : lines[i].parsed = "error"}) >>

\* SpecClear: a process started over the files of a completed run of an earlier
\* process; it serves start requests, whose identifier is any that no run of the
\* process has, and clear_history requests, which a worker thread serves step by
\* step beside the event loop.
OldRun == 1
OldQueue == ListAllImages(<<>>)
OldLog == [i \in 1..Len(OldQueue) |-> SuccessPrediction(OldQueue[i], "Answer: yes", 250)]
OldMeta ==
    [NewMeta(OldRun, MODELS[1], NoBatch, OldQueue) EXCEPT
        !.status = "completed", !.processed = Len(OldQueue),
        !.correct = Rederived(OldLog)[2], !.completed_at = "set"]
InitClear ==
    /\ _active_runs = [r \in RunIds |-> 0]
    /\ _cancel_flags = [r \in RunIds |-> FALSE]
    /\ _active_batches = [b \in BatchIds |-> {}]
    /\ meta = [t \in Tasks |-> NoMeta]
    /\ pc = [t \in Tasks |-> "none"]
    /\ idx = [t \in Tasks |-> 1]
    /\ images = [t \in Tasks |-> <<>>]
    /\ processed_keys = [t \in Tasks |-> {}]
    /\ attempt = [t \in Tasks |-> 0]
    /\ elapsed = MinGap
    /\ lock_holder = 0
    /\ lock_waiters = <<>>
    /\ sleep_left = [t \in Tasks |-> 0]
    /\ exists = {<< OldRun, "meta" >>, << OldRun, "jsonl" >>, << OldRun, "queue" >>}
    /\ meta_file = [r \in RunIds |-> IF r = OldRun THEN OldMeta ELSE NoMeta]
    /\ jsonl = [r \in RunIds |-> IF r = OldRun THEN OldLog ELSE <<>>]
    /\ queue_file = [r \in RunIds |-> IF r = OldRun THEN OldQueue ELSE <<>>]
    /\ io_faults = 0
    /\ h_since = MinGap
    /\ h_acquired = [t \in Tasks |-> {}]
    /\ h_called = [t \in Tasks |-> {}]
    /\ h_received = [r \in RunIds |-> <<>>]
    /\ h_window = -1
    /\ h_count = 0
    /\ call_args = <<>>
    /\ call_ret = <<>>
    /\ clearing = NoClear
    /\ battle_file = {}
    /\ votes_file = <<>>
    /\ vote_calls = [i \in VoteCalls |-> NoVoteCall]
NextClear ==
    \/ \E run_id \in FreshRunIds, sample_size \in SampleSizes :
          StartRun(run_id, MODELS[1], sample_size)
    \/ \E t \in Tasks : Executor(t) \/ LockGranted(t)
    \/ ClearBegins
    \/ \E r \in RunIds : ClearReads(r)
    \/ ClearUnlinks
    \/ ClearEnds
    \/ Tick(MinGap)
SpecClear == InitClear /\ [][NextClear]_vars

\* SpecClassify: the calls of classify_image for every way the gateway can
\* answer the requests of one call.
Answers == {Timeout, 200, 204, 400, 404, 500} \cup TransientStatuses
AnswerLists == [1..(Len(Retries) + 1) -> Answers]
NextClassify ==
    \/ \E answers \in AnswerLists : call_args = <<>> /\ Call("classify_image", answers)
    \/ Return
SpecClassify == InitReliable /\ [][NextClassify]_vars

\* SpecEnhanced: the calls of compute_enhanced_metrics on the lists of
\* SpecMetrics.
NextEnhanced ==
    \/ \E predictions \in PredictionLists :
          call_args = <<>> /\ Call("compute_enhanced_metrics", predictions)
    \/ Return
SpecEnhanced == InitReliable /\ [][NextEnhanced]_vars

(* -------------------------------- votes -------------------------------- *)
\* The four handlers that append to votes.jsonl are coroutines of one event
\* loop: submit_vote and vote_telegram of routers/battle.py, the webhook's
\* _handle_vote_callback, and submit_vote of routers/arena.py.  A coroutine
\* runs alone from one await to the next, and none of the four awaits between
\* _load_votes() and the write, so the body of a handler up to its first
\* await is one step.  Round and voter ids are strings in the code and
\* numbers here; vote_id, timestamp and the model names of a vote are left out.
BattleRoundIds == 1 .. MaxRounds
VoterIds == 1 .. MaxVoters
Handlers == {"submit_vote", "vote_telegram", "_handle_vote_callback", "arena.submit_vote"}
\* what a request may carry: a good and a bad vote, and a good side
VotedFor == {"second", "up"}
FirstSides == {"openclaw"}

\* the duplicate check looks at the last line only
AlreadyVotedLastLine(votes, round_id, voter_id) ==
    /\ votes # <<>>
    /\ votes[Len(votes)].round_id = round_id
    /\ votes[Len(votes)].voter_id = voter_id

\* any(v.round_id == round_id and v.voter_id == voter_id for v in votes)
AlreadyVoted(votes, round_id, voter_id) ==
    \E k \in 1..Len(votes) : votes[k].round_id = round_id /\ votes[k].voter_id = voter_id

\* {"first": "model_a", "second": "model_b"}.get(voted_for, "tie")
CanonicalVote(voted_for) ==
    IF voted_for = "first" THEN "model_a"
    ELSE IF voted_for = "second" THEN "model_b" ELSE "tie"

\* the BattleVote a handler builds
BattleVote(c) ==
    [round_id |-> c.round_id, voter_id |-> c.voter_id,
     voted_for |-> CanonicalVote(c.voted_for),
     model_a_side |-> IF c.first_side = "nemotron" THEN "nemotron" ELSE "openclaw"]

ValidVotedFor(c) == c.voted_for \in {"first", "second", "tie"}
ValidFirstSide(c) == c.first_side \in {"nemotron", "openclaw"}

\* What the handler of request c answers over the rounds and votes it loads,
\* by the order of its checks.  "recorded" is the answer of the path that
\* reaches the write.
\* POST /api/battle/vote/submit and POST /api/arena/vote/submit
SubmitVoteReply(c, rounds, votes) ==
    IF ~ValidVotedFor(c) \/ ~ValidFirstSide(c) THEN "400"
    ELSE IF c.round_id \notin rounds THEN "404"
    ELSE IF AlreadyVoted(votes, c.round_id, c.voter_id) THEN "409"
    ELSE "recorded"

\* GET /api/battle/vote/telegram: intact = the signature matches
VoteTelegramReply(c, rounds, votes) ==
    IF ~c.intact THEN "403"
    ELSE IF ~ValidVotedFor(c) \/ ~ValidFirstSide(c) THEN "400"
    ELSE IF c.round_id \notin rounds THEN "404"
    ELSE IF AlreadyVoted(votes, c.round_id, c.voter_id) THEN "Already voted!"
    ELSE "recorded"

\* the callback query of the webhook: intact = the data has four parts
HandleVoteCallbackReply(c, rounds, votes) ==
    IF ~c.intact THEN "Invalid vote data"
    ELSE IF c.round_id \notin rounds THEN "Round not found"
    ELSE IF AlreadyVoted(votes, c.round_id, c.voter_id)
    THEN "You already voted on this round!"
    ELSE IF ~ValidVotedFor(c) \/ ~ValidFirstSide(c) THEN "Invalid vote"
    ELSE "recorded"

VoteReply(c, rounds, votes) ==
    IF c.via = "vote_telegram" THEN VoteTelegramReply(c, rounds, votes)
    ELSE IF c.via = "_handle_vote_callback" THEN HandleVoteCallbackReply(c, rounds, votes)
    ELSE SubmitVoteReply(c, rounds, votes)

\* the handler awaits the Telegram API before it returns: the callback
\* handler on every path, the vote link after it has written the vote
AwaitsTelegram(c, reply) ==
    \/ c.via = "_handle_vote_callback"
    \/ c.via = "vote_telegram" /\ reply = "recorded"

\* a request reaches the event loop at a number that is free or whose
\* request has been answered
VoteArrives(i, via, round_id, voter_id, voted_for, first_side, intact) ==
    /\ vote_calls[i].pc \in {"none", "replied"}
    /\ vote_calls' = [vote_calls EXCEPT ![i] =
          [pc |-> "sent", via |-> via, round_id |-> round_id, voter_id |-> voter_id,
           voted_for |-> voted_for, first_side |-> first_side, intact |-> intact,
           reply |-> ""]]
    /\ UNCHANGED << registryVars, taskVars, limiterVars, diskVars, histVars,
                    call_args, call_ret, clearing, battle_file, votes_file >>

\* the handler of request i runs to its first await or to its return
HandleVote(i) ==
    /\ vote_calls[i].pc = "sent"
    /\ LET c == vote_calls[i]
           reply == VoteReply(c, battle_file, votes_file)
       IN  /\ votes_file' = IF reply = "recorded"
                            THEN Append(votes_file, BattleVote(c)) ELSE votes_file
           /\ vote_calls' = [vote_calls EXCEPT
                 ![i].reply = reply,
                 ![i].pc = IF AwaitsTelegram(c, reply) THEN "telegram" ELSE "replied"]
    /\ UNCHANGED << registryVars, taskVars, limiterVars, diskVars, histVars,
                    call_args, call_ret, clearing, battle_file >>

\* the Telegram API answers, or the call fails, and the handler returns
TelegramAnswers(i) ==
    /\ vote_calls[i].pc = "telegram"
    /\ vote_calls' = [vote_calls EXCEPT ![i].pc = "replied"]
    /\ UNCHANGED << registryVars, taskVars, limiterVars, diskVars, histVars,
                    call_args, call_ret, clearing, battle_file, votes_file >>

\* SpecVotes: a process whose battle.jsonl holds one round and whose
\* votes.jsonl is empty, and the vote requests that reach it, which may name
\* a round that was never played.
RoundsPlayed == {1}
InitVotes ==
    /\ _active_runs = [r \in RunIds |-> 0]
    /\ _cancel_flags = [r \in RunIds |-> FALSE]
    /\ _active_batches = [b \in BatchIds |-> {}]
    /\ meta = [t \in Tasks |-> NoMeta]
    /\ pc = [t \in Tasks |-> "none"]
    /\ idx = [t \in Tasks |-> 1]
    /\ images = [t \in Tasks |-> <<>>]
    /\ processed_keys = [t \in Tasks |-> {}]
    /\ elapsed = MinGap
    /\ lock_holder = 0
    /\ lock_waiters = <<>>
    /\ sleep_left = [t \in Tasks |-> 0]
    /\ exists = {}
    /\ meta_file = [r \in RunIds |-> NoMeta]
    /\ jsonl = [r \in RunIds |-> <<>>]
    /\ queue_file = [r \in RunIds |-> <<>>]
    /\ io_faults = 0
    /\ h_since = MinGap
    /\ h_acquired = [t \in Tasks |-> {}]
    /\ h_called = [t \in Tasks |-> {}]
    /\ h_received = [r \in RunIds |-> <<>>]
    /\ attempt = [t \in Tasks |-> 0]
    /\ h_window = -1
    /\ h_count = 0
    /\ call_args = <<>>
    /\ call_ret = <<>>
    /\ clearing = NoClear
    /\ battle_file = RoundsPlayed
    /\ votes_file = <<>>
    /\ vote_calls = [i \in VoteCalls |-> NoVoteCall]
NextVotes ==
    \/ \E i \in VoteCalls, via \in Handlers, round_id \in BattleRoundIds, voter_id \in VoterIds,
          voted_for \in VotedFor, first_side \in FirstSides, intact \in BOOLEAN :
          /\ intact \/ via \in {"vote_telegram", "_handle_vote_callback"}
          /\ VoteArrives(i, via, round_id, voter_id, voted_for, first_side, intact)
    \/ \E i \in VoteCalls : HandleVote(i)
    \/ \E i \in VoteCalls : TelegramAnswers(i)
SpecVotes == InitVotes /\ [][NextVotes]_vars

(* ------------------------------ properties ----------------------------- *)
\* the tasks that hold a RunMeta of the running process
Held == {t \in Tasks : pc[t] \notin {"none", "gone"}}
\* the cancellation flag of the run of task t is set
Flagged(t) == t \in Held /\ _cancel_flags[meta[t].run_id]
\* the keys of the queue of task t, and the lines of its run log
QueueKeys(t) == {Key(images[t][i]) : i \in 1..Len(images[t])}
Log(t) == jsonl[meta[t].run_id]
\* the records of a log that carry an image path
RecordsOf(lines, key) == {i \in 1..Len(lines) : lines[i].image_path = key}
\* task t has left an iteration: it no longer stands where it stood
Moved(t) == pc'[t] # pc[t] \/ idx'[t] # idx[t]

\* one step of the status of the RunMeta of task t
C1_Step(t) ==
    /\ (pc[t] = "none" /\ pc'[t] # "none") => meta'[t].status = "pending"
    /\ (t \in Held /\ pc'[t] # "gone" /\ meta'[t].status # meta[t].status) =>
          \/ meta[t].status = "pending" /\ meta'[t].status = "running"
          \/ meta[t].status = "running" /\ meta'[t].status \in Terminal

\* C1: a run is pending when start_run creates it, becomes running only from
\* pending, becomes completed, cancelled or failed only from running, and its
\* status never changes once it is one of these three, whatever executor steps
\* and cancel_run, cancel_batch and clear_history calls follow.
C1_StatusMoves == [][\A t \in Tasks : C1_Step(t)]_vars

\* a run of a batch has failed and its cancellation has been requested
C1_Witness ==
    \E t \in Held : /\ meta[t].status = "failed"
                    /\ meta[t].batch_id # NoBatch
                    /\ _cancel_flags[meta[t].run_id]

\* C2: for every run, fresh or started over a run log with records, and in
\* every reachable state, processed <= total_images and
\* correct + errors <= processed.
C2_Counters ==
    \A t \in Tasks : /\ meta[t].processed <= meta[t].total_images
                     /\ meta[t].correct + meta[t].errors <= meta[t].processed

\* a run started over a log with a record has skipped it, counted an error for
\* the other image and has processed its whole queue
C2_Witness ==
    \E t \in Held : /\ processed_keys[t] # {}
                    /\ h_called[t] # {}
                    /\ meta[t].errors = 1
                    /\ meta[t].total_images = 2
                    /\ meta[t].processed = meta[t].total_images

\* C3: whatever tasks call acquire() and however their steps interleave, an
\* acquisition completes MinGap seconds or more after the one before it.
C3_MinimumGap ==
    [][\A t \in Tasks : (pc[t] # "classify" /\ pc'[t] = "classify") => h_since >= MinGap]_vars

\* one caller queues for the lock while the holder sleeps the rest of a gap that
\* another acquisition has begun
C3_Witness ==
    \E t, u \in Tasks : /\ pc[t] = "lockwait"
                        /\ pc[u] = "sleeping"
                        /\ sleep_left[u] \in 1..(MinGap - 1)
                        /\ h_called[t] # {}

\* the log task t found at its start holds the records of a non-empty prefix
\* of its queue
OverPrefix(t) ==
    /\ processed_keys[t] # {}
    /\ \E k \in 1..Len(images[t]) :
          processed_keys[t] = {Key(images[t][i]) : i \in 1..k}

\* C4: an executor started over a run log with records of a prefix of its queue
\* calls neither acquire() nor the gateway for an image of the prefix, leaves
\* the one record of each in place and counts each image once; when the run
\* is completed the log holds exactly one record for each image of the queue.
C4_Resume ==
    \A t \in Held : OverPrefix(t) =>
        /\ h_acquired[t] \cap processed_keys[t] = {}
        /\ h_called[t] \cap processed_keys[t] = {}
        /\ \A key \in processed_keys[t] : Cardinality(RecordsOf(Log(t), key)) = 1
        /\ pc[t] = "loop" => meta[t].processed = idx[t] - 1
        /\ meta[t].status = "completed" =>
              /\ Len(Log(t)) = Len(images[t])
              /\ \A key \in QueueKeys(t) : Cardinality(RecordsOf(Log(t), key)) = 1

\* a run started over the record of the first of its two images is completed
\* after one gateway call
C4_Witness ==
    \E t \in Held : /\ OverPrefix(t)
                    /\ Cardinality(processed_keys[t]) < Len(images[t])
                    /\ h_called[t] # {}
                    /\ meta[t].status = "completed"

\* C5: in every reachable state no run log holds two records of one image
\* path, whatever successes, per-image errors, cancellations and restarts over
\* an existing log occur.
C5_OneRecordPerImage ==
    \A r \in RunIds : \A i, j \in 1..Len(jsonl[r]) :
        jsonl[r][i].image_path = jsonl[r][j].image_path => i = j

\* a run started over a log with a record, and asked to cancel, has appended
\* an error record to it
C5_Witness ==
    \E t \in Held : /\ processed_keys[t] # {}
                    /\ Len(Log(t)) > Cardinality(processed_keys[t])
                    /\ Log(t)[Len(Log(t))].parsed = "error"
                    /\ _cancel_flags[meta[t].run_id]

C6_Step(t) ==
    /\ meta'[t].status = "completed" => idx[t] > Len(images[t])
    /\ (pc[t] = "loop" /\ idx[t] <= Len(images[t]) /\ Moved(t)) =>
          meta'[t].status = "cancelled"

Rank(p) ==
    CASE p = "lockwait" -> 1
      [] p = "sleeping" -> 2
      [] p = "classify" -> 3
      [] p \in {"save", "created"} -> 4
      [] p = "loop" -> 5
      [] OTHER -> 6

\* one step of task t while its flag is set: the task only moves on from where
\* it stands to the next check, where it stops; a call begins only out of the
\* limiter, a record is appended and processed incremented only by the end of
\* the call in flight, which appends the record of its image
C7_Step(t) ==
    /\ Rank(pc'[t]) >= Rank(pc[t])
    /\ pc[t] = "loop" => pc'[t] \in {"loop", "done"}
    /\ h_called'[t] # h_called[t] => pc[t] \in {"lockwait", "sleeping"}
    /\ (Log(t)' # Log(t) \/ meta'[t].processed # meta[t].processed) => pc[t] = "classify"
    /\ (pc[t] = "classify" /\ Moved(t)) =>
          /\ Len(Log(t)') = Len(Log(t)) + 1
          /\ SubSeq(Log(t)', 1, Len(Log(t))) = Log(t)
          /\ Log(t)'[Len(Log(t)')].image_path = Key(images[t][idx[t]])
          /\ meta'[t].processed = meta[t].processed + 1

\* C7: once the cancellation flag of a run is set the run begins at most one
\* more gateway call, that of the iteration that had passed the check (it may
\* still wait in the rate limiter), appends at most one more record and
\* increments processed at most once; a call in flight is not interrupted and
\* its outcome is recorded.
C7_AfterCancel == [][\A t \in Tasks : Flagged(t) => C7_Step(t)]_vars

\* the flag is set while the run queues for the limiter lock with a further
\* image behind the one it is about to send
C7_Witness ==
    \E t \in Held : /\ Flagged(t)
                    /\ pc[t] = "lockwait"
                    /\ idx[t] < Len(images[t])

\* C8 (state): while no file operation raises, no run is failed and no task
\* ends on an exception; a record that carries a gateway exception has the
\* verdict error; a finished run is completed or cancelled, and a completed one
\* has called the gateway for every image of its queue.
C8_State ==
    \A t \in Held :
        /\ meta[t].status # "failed"
        /\ pc[t] # "dead"
        /\ \A i \in 1..Len(Log(t)) :
              Log(t)[i].raw_response \in GatewayErrors =>
                 (Log(t)[i].parsed = "error" /\ ~Log(t)[i].correct)
        /\ pc[t] = "done" => meta[t].status \in {"completed", "cancelled"}
        /\ meta[t].status = "completed" => h_called[t] = QueueKeys(t)

\* C8 (step): the end of a gateway call, a raised exception included, appends
\* one record of the image and the executor goes on to the snapshot and the
\* next iteration.
C8_Step(t) ==
    (pc[t] = "classify" /\ Moved(t)) =>
        /\ pc'[t] = "save"
        /\ Len(Log(t)') = Len(Log(t)) + 1
        /\ Log(t)'[Len(Log(t)')].image_path = Key(images[t][idx[t]])

\* C8: if the only exceptions of a run are those of the gateway call, the run
\* is never failed: each failing image gives one record with the verdict error
\* and the executor goes on to every image left, ending completed or cancelled.
C8_GatewayErrors == [](C8_State) /\ [][\A t \in Tasks : C8_Step(t)]_vars

\* a run is completed with an error record for each of its two images
C8_Witness ==
    \E t \in Held : /\ meta[t].status = "completed"
                    /\ Len(Log(t)) = 2
                    /\ \A i \in 1..2 : Log(t)[i].raw_response \in GatewayErrors

\* C9 as claimed, for the runs whose task has ended: every run reaches
\* completed, cancelled or failed whichever step of the executor raises.
C9_EndsTerminal ==
    \A t \in Held : pc[t] \in {"done", "dead"} => meta[t].status \in Terminal

\* C10: a completed run has processed = total_images, a record in its log for
\* every image of its queue and completed_at set; completed_at is not set for a
\* cancelled or a failed run.
C10_Completed ==
    \A t \in Held :
        /\ meta[t].status = "completed" =>
              /\ meta[t].processed = meta[t].total_images
              /\ \A key \in QueueKeys(t) : RecordsOf(Log(t), key) # {}
              /\ meta[t].completed_at = "set"
        /\ meta[t].status \in {"cancelled", "failed"} => meta[t].completed_at = "None"

\* a run of two images, started over a log with one record, is completed
C10_Witness ==
    \E t \in Held : /\ meta[t].status = "completed"
                    /\ meta[t].total_images = 2
                    /\ Cardinality(processed_keys[t]) = 1

\* the tasks created in this step
Launched == {t \in Tasks : pc[t] = "none" /\ pc'[t] = "created"}
\* the runs of the running process that carry a batch id
Members(b) == {t \in Held : meta[t].batch_id = b}
\* the model ids of the configuration
Configured == {MODELS[i] : i \in 1..Len(MODELS)}

\* C11 (step): the runs one start_batch_run call creates carry the id of the
\* batch it registers and have the same queue, the same queue file and the same
\* total_images.
C11_Step ==
    \A b \in BatchIds :
        (_active_batches[b] = {} /\ _active_batches'[b] # {}) =>
            /\ Launched # {}
            /\ \A t, u \in Launched :
                  /\ meta'[t].batch_id = b
                  /\ images'[t] = images'[u]
                  /\ queue_file'[meta'[t].run_id] = images'[u]
                  /\ meta'[t].total_images = Len(images'[u])

\* C11 (state): the runs that carry one batch id have queues equal element for
\* element, equal queue files and equal total_images.
C11_State ==
    \A b \in BatchIds : \A t, u \in Members(b) :
        /\ images[t] = images[u]
        /\ queue_file[meta[t].run_id] = queue_file[meta[u].run_id]
        /\ << meta[t].run_id, "queue" >> \in exists
        /\ queue_file[meta[t].run_id] = images[u]
        /\ meta[t].total_images = meta[u].total_images

\* C11: all runs launched by one start_batch_run call carry the same batch id
\* and get the same image queue, element for element; their queue files are
\* identical and so is total_images of every member.
C11_SharedQueue == [](C11_State) /\ [][C11_Step]_vars

\* two runs of one batch over a queue of two images, one of them past its first
\* image and the other not
C11_Witness ==
    \E b \in BatchIds : \E t, u \in Members(b) :
        /\ t # u
        /\ Len(images[t]) = 2
        /\ idx[t] > 1
        /\ idx[u] = 1

\* C12 as claimed: once cancel_batch(b) has returned, the cancellation flag of
\* every run that start_batch_run launched under b is set, whatever model list
\* the batch was requested with.
C12_BatchCancelled ==
    [][\A b \in BatchIds :
          CancelBatch(b) => \A t \in Members(b) : _cancel_flags'[meta[t].run_id]]_vars

\* C13 as claimed: start_run does not register a run, write a file or create a
\* task for a model id that is not among the configured models.
C13_OnlyConfigured ==
    /\ \A t \in Held : meta[t].batch_id = NoBatch => meta[t].model_id \in Configured
    /\ \A r \in RunIds :
          (<< r, "meta" >> \in exists /\ meta_file[r].batch_id = NoBatch) =>
              meta_file[r].model_id \in Configured

\* a step of start_run: the run is registered as pending, its snapshot and its
\* queue are on disk and its task is created
C13_Step ==
    \A t \in Launched :
        LET rid == meta'[t].run_id
        IN  /\ meta'[t].status = "pending"
            /\ _active_runs'[rid] = t
            /\ ~_cancel_flags'[rid]
            /\ {<< rid, "meta" >>, << rid, "queue" >>} \subseteq exists'
            /\ meta_file'[rid] = meta'[t]

\* C13: start_run accepts every model id: get_model_info returns an info for an
\* id that is not among the configured models too, and the run is registered,
\* its files are written and its task is created as for a configured one.
C13_AnyModelStarts ==
    /\ [](\A model_id \in RequestModels : GetModelInfo(model_id) # <<>>)
    /\ [][C13_Step]_vars

\* a run started by start_run for a model id that is not configured is completed
C13_Witness ==
    \E t \in Held : /\ meta[t].batch_id = NoBatch
                    /\ meta[t].model_id \notin Configured
                    /\ meta[t].status = "completed"
                    /\ meta[t].total_images = 2

\* C14 as claimed: start_batch_run creates no run when the requested list of
\* model ids is empty or holds no configured model id.
C14_EmptySubsetRejected ==
    [][\A model_ids \in {<< <<>> >>, << << UnlistedModel >> >>} :
          (\E batch_id \in BatchIds, sample_size \in SampleSizes :
              \E rids \in DistinctDraws(Len(Selected(model_ids))) :
                 StartBatchRun(batch_id, rids, sample_size, model_ids))
          => Launched = {}]_vars

\* the files of run id r in the results directory
FilesOf(r, files) == {f \in files : f[1] = r}
\* the run ids with a snapshot on disk whose status is one of a set
Persisted(statuses) ==
    {r \in RunIds : << r, "meta" >> \in exists /\ meta_file[r].status \in statuses}

\* C15 as claimed: clear_history removes no snapshot, log or queue file of a run
\* whose snapshot on disk says pending or running, in the process that started
\* the run and in a later one.
C15_ActiveKept ==
    [][ClearHistory => \A r \in Persisted(Active) : FilesOf(r, exists') = FilesOf(r, exists)]_vars

\* C16 as claimed: when clear_history has returned, no snapshot, log or queue
\* file is left of a run whose snapshot on disk said completed, cancelled or
\* failed, the runs that ended in the running process included.
C16_TerminalRemoved ==
    [][ClearHistory => \A r \in Persisted(Terminal) : FilesOf(r, exists') = {}]_vars

\* no process has ended: every run log was empty when its run was started
FirstProcess == \A t \in Tasks : pc[t] # "gone"

\* C18: for a run started with an empty log, in every reachable state (each a
\* state the process can end in) processed of the snapshot on disk is the number
\* of records of the run log or that number less one, file operations that raise
\* included.
C18_SnapshotLag ==
    FirstProcess =>
        \A r \in RunIds :
            << r, "meta" >> \in exists =>
                meta_file[r].processed \in {Len(jsonl[r]), Len(jsonl[r]) - 1}

\* the second record of a run is in its log and the snapshot on disk counts one
C18_Witness ==
    /\ FirstProcess
    /\ \E r \in RunIds : /\ << r, "meta" >> \in exists
                         /\ Len(jsonl[r]) = 2
                         /\ meta_file[r].processed = 1

\* C17 (state): what the client has been given is the run log up to the number
\* of records it holds, each record once and in log order; a poll with last at
\* or beyond the length of the log returns the empty list.
C17_State ==
    \A r \in RunIds :
        /\ Len(h_received[r]) <= Len(jsonl[r])
        /\ h_received[r] = SubSeq(jsonl[r], 1, Len(h_received[r]))
        /\ \A last \in Len(LoadPredictions(r))..(Len(LoadPredictions(r)) + 2) :
              RunPredictions(r, last) = <<>>

\* C17 (step): a poll hands the client the records it did not hold, so that it
\* then holds the whole log
C17_Step(r) == Poll(r) => h_received'[r] = jsonl[r]

\* C17: a client that polls the predictions of a run with last = the number of
\* records it has received gets every record of the log once and in log order,
\* however its polls interleave with the appends of the executor, and a poll with
\* last >= the length of the log returns an empty list.
C17_Polling == [](C17_State) /\ [][\A r \in RunIds : C17_Step(r)]_vars

\* the client holds the first record of a log of two records
C17_Witness ==
    \E r \in RunIds : /\ Len(h_received[r]) = 1
                     /\ Len(jsonl[r]) = 2

\* the log of run id r ends with a line cut short and every line before it is a
\* whole record
TornTail(r) ==
    /\ << r, "jsonl" >> \in exists
    /\ jsonl[r] # <<>>
    /\ ~ValidatesJson(jsonl[r][Len(jsonl[r])])
    /\ \A i \in 1..(Len(jsonl[r]) - 1) : ValidatesJson(jsonl[r][i])

\* C19 as claimed: when a run log ends with an incomplete last line, left by a
\* process that ended inside the write, load_predictions does not raise and the
\* resume scan of an executor started over that log does not raise either.
C19_TornLineSkipped ==
    \A r \in RunIds :
        TornTail(r) =>
            /\ ~LoadRaises(LoadPredictions(r))
            /\ \A t \in Held : meta[t].run_id = r => pc[t] # "dead"

\* task t is inside acquire(): queued for the lock, or asleep with the lock held
InAcquire(t) == pc[t] \in {"lockwait", "sleeping"}

\* C20 (state): a caller inside acquire() sleeps holding the lock, or has been
\* handed the lock, or is queued for it once while another caller holds it
C20_State ==
    \A t \in Tasks :
        /\ pc[t] = "sleeping" => lock_holder = t
        /\ pc[t] = "lockwait" =>
              \/ lock_holder = t
              \/ /\ lock_holder # 0
                 /\ Cardinality({i \in 1..Len(lock_waiters) : lock_waiters[i] = t}) = 1

\* C20: every call of acquire() returns, whatever number of tasks call it at
\* once, when the event loop resumes every task that can run and time goes on:
\* no caller waits for ever and none is passed over for the lock.
C20_AcquireReturns ==
    /\ [](C20_State)
    /\ \A t \in Tasks : InAcquire(t) ~> (pc[t] = "classify")

\* a task is queued for the lock with the acquisition for its second image while
\* the other sleeps holding the lock
C20_Witness ==
    \E t, u \in Tasks : /\ pc[t] = "lockwait"
                        /\ idx[t] = 2
                        /\ pc[u] = "sleeping"
                        /\ lock_holder = u

\* C21 as claimed: whatever runs are under way, at most MAX_CALLS_PER_MINUTE
\* requests are posted to the gateway within 60 seconds, the first request of
\* every classify_image call and the requests of its retries counted alike.
C21_RequestsPerMinute == h_count <= MAX_CALLS_PER_MINUTE

\* the records of a list with a category and a verdict
CountOf(predictions, category, parsed) ==
    Cardinality({i \in 1..Len(predictions) :
                    predictions[i].category = category /\ predictions[i].parsed = parsed})
\* compute_metrics has returned
MetricsReturned ==
    call_args # <<>> /\ call_args[1] = "compute_metrics" /\ call_ret # <<>>
\* the list of the example: hot_dog/yes, hot_dog/no, not_hot_dog/no,
\* not_hot_dog/yes, hot_dog/error
ExampleList ==
    << MetricRecord("hot_dog", "yes"), MetricRecord("hot_dog", "no"),
       MetricRecord("not_hot_dog", "no"), MetricRecord("not_hot_dog", "yes"),
       MetricRecord("hot_dog", "error") >>

\* C22: for every list of records compute_metrics returns TP = the records
\* (hot_dog, yes), TN = (not_hot_dog, no), FP = (not_hot_dog, yes),
\* FN = (hot_dog, no), errors = the records with the verdict error, and
\* total = TP + TN + FP + FN + errors = the length of the list; for the list of
\* the example it returns 1, 1, 1, 1, errors 1, total 5 and accuracy, precision,
\* recall and F1 of 0.5.
C22_Metrics ==
    MetricsReturned =>
        LET predictions == call_args[2]
            m == call_ret[1]
        IN  /\ m.true_positives = CountOf(predictions, "hot_dog", "yes")
            /\ m.true_negatives = CountOf(predictions, "not_hot_dog", "no")
            /\ m.false_positives = CountOf(predictions, "not_hot_dog", "yes")
            /\ m.false_negatives = CountOf(predictions, "hot_dog", "no")
            /\ m.errors = CountOf(predictions, "hot_dog", "error")
                             + CountOf(predictions, "not_hot_dog", "error")
            /\ m.total = m.true_positives + m.true_negatives + m.false_positives
                             + m.false_negatives + m.errors
            /\ m.total = Len(predictions)
            /\ predictions = ExampleList =>
                  /\ << m.true_positives, m.true_negatives, m.false_positives,
                        m.false_negatives, m.errors, m.total >> = << 1, 1, 1, 1, 1, 5 >>
                  /\ << m.accuracy, m.precision, m.recall, m.f1 >>
                        = << Places \div 2, Places \div 2, Places \div 2, Places \div 2 >>

\* compute_metrics has returned for the list of the example
C22_Witness == MetricsReturned /\ call_args[2] = ExampleList

\* wilson_ci(1, 4) has returned
WilsonReturned ==
    call_args # <<>> /\ call_args[1] = "wilson_ci" /\ call_args[2] = << 1, 4 >>
                     /\ call_ret # <<>>
\* a is within 0.001 of b, both in ten-thousandths
Within(a, b) == a - b <= 10 /\ b - a <= 10

\* C23 as claimed: wilson_ci(1, 4, 1.96) returns a lower bound within 0.001 of
\* 0.0545 and an upper bound within 0.001 of 0.7566.
C23_AsClaimed ==
    WilsonReturned => Within(call_ret[1][1], 545) /\ Within(call_ret[1][2], 7566)

\* C23: wilson_ci(1, 4, 1.96) returns a lower bound within 0.001 of 0.0456 and
\* an upper bound within 0.001 of 0.6994.
C23_Interval ==
    WilsonReturned => Within(call_ret[1][1], 456) /\ Within(call_ret[1][2], 6994)

\* wilson_ci(1, 4) has returned an interval inside 0..1 with the ratio 0.25 in it
C23_Witness ==
    /\ WilsonReturned
    /\ 0 < call_ret[1][1]
    /\ call_ret[1][1] < Places \div 4
    /\ Places \div 4 < call_ret[1][2]
    /\ call_ret[1][2] < Places

\* C24: at most one caller is between the read of the last-call timestamp and
\* the write of the new one: a caller that waits in acquire() holds the lock, the
\* timestamp of the limiter is that of the most recently completed acquisition,
\* and the wait of the caller is what is left of the gap since that acquisition.
C24_ReadModifyWrite ==
    /\ \A t \in Tasks : pc[t] = "sleeping" =>
          lock_holder = t /\ sleep_left[t] = MinGap - h_since
    /\ \A t \in Tasks : pc[t] = "lockwait" =>
          lock_holder # 0 /\ (lock_holder = t \/ \E i \in 1..Len(lock_waiters) : lock_waiters[i] = t)
    /\ elapsed = h_since

\* a caller waits out the gap with the lock while another caller queues for it
C24_Witness ==
    \E t, u \in Tasks :
        /\ pc[t] = "sleeping" /\ sleep_left[t] > 0 /\ lock_holder = t
        /\ pc[u] = "lockwait" /\ lock_waiters = << u >>

\* the executor of task t has entered its loop over a log without records
StartedEmpty(t) ==
    t \in Held /\ pc[t] \notin {"created", "dead"} /\ processed_keys[t] = {}
\* the keys of the first n images of the queue of task t
QueuePrefix(t, n) == {Key(images[t][i]) : i \in 1..Min(n, Len(images[t]))}

\* C25: for a run started with an empty log the image paths of the log are at
\* every moment those of the first images of the queue, in the order of the
\* queue, and the executor has called acquire() and the gateway for nothing
\* beyond the image that follows the last record.
C25_QueueOrder ==
    \A t \in Held : StartedEmpty(t) =>
        /\ Len(Log(t)) <= Len(images[t])
        /\ \A i \in 1..Len(Log(t)) : Log(t)[i].image_path = Key(images[t][i])
        /\ h_acquired[t] \subseteq QueuePrefix(t, Len(Log(t)) + 1)
        /\ h_called[t] \subseteq QueuePrefix(t, Len(Log(t)) + 1)

\* a run started with an empty log has a record of each image of a queue of
\* two, the first of them an error record
C25_Witness ==
    \E t \in Held : /\ StartedEmpty(t)
                    /\ Len(images[t]) = 2
                    /\ Len(Log(t)) = 2
                    /\ Log(t)[1].parsed = "error"
                    /\ Log(t)[2].parsed # "error"

\* the images task t has called acquire() for and not yet the gateway
Pending(t) == h_acquired[t] \ h_called[t]
\* task t stands at the head of an iteration that skips its image or ends the
\* loop on the cancellation flag
SkipsOrCancels(t) ==
    /\ pc[t] = "loop"
    /\ idx[t] <= Len(images[t])
    /\ \/ _cancel_flags[meta[t].run_id]
       \/ Key(images[t][idx[t]]) \in processed_keys[t]

C26_State ==
    \A t \in Held :
        /\ h_called[t] \subseteq h_acquired[t]
        /\ Cardinality(Pending(t)) <= 1
        /\ Pending(t) # {} <=> pc[t] \in {"lockwait", "sleeping"}
        /\ pc[t] \in {"lockwait", "sleeping"} => Pending(t) = {Key(images[t][idx[t]])}

C26_Step(t) ==
    /\ pc[t] \in {"loop", "lockwait", "sleeping", "classify", "save"} /\ pc'[t] # "gone" =>
          \* the gateway is called for the image of the iteration, after the one
          \* acquire() since the call before
          /\ h_called'[t] # h_called[t] =>
                /\ h_called'[t] = h_called[t] \cup {Key(images[t][idx[t]])}
                /\ Key(images[t][idx[t]]) \notin h_called[t]
                /\ h_acquired'[t] = h_called'[t]
          \* acquire() is called once the calls before it have led to their
          \* gateway calls, and not in an iteration that skips or cancels
          /\ h_acquired'[t] # h_acquired[t] =>
                /\ pc[t] = "loop"
                /\ Pending(t) = {}
                /\ ~SkipsOrCancels(t)
                /\ h_acquired'[t] = h_acquired[t] \cup {Key(images[t][idx[t]])}
                /\ Key(images[t][idx[t]]) \notin h_acquired[t]
    /\ SkipsOrCancels(t) /\ Moved(t) /\ pc'[t] # "gone" =>
          h_acquired'[t] = h_acquired[t] /\ h_called'[t] = h_called[t]

\* C26: every gateway call of an executor follows exactly one completed
\* acquire() of that executor since its gateway call before; no gateway call is
\* made without one, and an iteration that skips a recorded image or sees the
\* cancellation flag calls neither acquire() nor the gateway.
C26_AcquireThenCall == [](C26_State) /\ [][\A t \in Tasks : C26_Step(t)]_vars

\* an executor has skipped a recorded image and has called acquire() and then
\* the gateway for the next one
C26_Witness ==
    \E t \in Held : /\ processed_keys[t] # {}
                    /\ h_called[t] # {}
                    /\ h_acquired[t] = h_called[t]
                    /\ h_called[t] \cap processed_keys[t] = {}
                    /\ pc[t] = "classify"

\* the log of the run of task t after a step
LogAfter(t) == jsonl'[meta[t].run_id]
\* task t handles an exception of the gateway call: the step appends a record
\* whose raw text is the message of the exception
HandlesGatewayError(t) ==
    /\ pc[t] = "classify"
    /\ Len(LogAfter(t)) > Len(Log(t))
    /\ LogAfter(t)[Len(LogAfter(t))].raw_response \in GatewayErrors

C27_Step(t) ==
    /\ HandlesGatewayError(t) =>
          /\ \E message \in GatewayErrors :
                LogAfter(t) = Append(Log(t),
                    [image_path |-> Key(images[t][idx[t]]),
                     category |-> images[t][idx[t]].category,
                     raw_response |-> message, parsed |-> "error",
                     correct |-> FALSE, latency_ms |-> 0])
          /\ meta'[t] = [meta[t] EXCEPT !.processed = @ + 1, !.errors = @ + 1]
          /\ meta'[t].correct = meta[t].correct
          /\ pc'[t] = "save" /\ idx'[t] = idx[t]
    \* the step to the next image writes the snapshot with these counters
    /\ (pc[t] = "save" /\ idx'[t] = idx[t] + 1) =>
          /\ meta_file'[meta[t].run_id] = meta[t]
          /\ << meta[t].run_id, "meta" >> \in exists'
          /\ meta'[t] = meta[t]

\* C27: when the gateway call for an image raises, the executor appends exactly
\* one record of that image with the verdict error, latency 0, correct false
\* and the message of the exception as raw text, adds 1 to processed and to
\* errors, leaves correct alone, and writes the snapshot before the next image.
C27_GatewayRaises == [][\A t \in Tasks : C27_Step(t)]_vars

\* after an exception of the gateway call for its first image the executor is
\* at its second image and the snapshot on disk counts the error
C27_Witness ==
    \E t \in Held : /\ pc[t] = "loop" /\ idx[t] = 2
                    /\ Len(Log(t)) = 1
                    /\ Log(t)[1].raw_response \in GatewayErrors
                    /\ meta[t].errors = 1 /\ meta[t].processed = 1 /\ meta[t].correct = 0
                    /\ meta_file[meta[t].run_id] = meta[t]

\* task t appends the record of a returned gateway call
AppendsReturned(t) ==
    /\ pc[t] = "classify"
    /\ Len(LogAfter(t)) > Len(Log(t))
    /\ LogAfter(t)[Len(LogAfter(t))].raw_response \notin GatewayErrors

C28_Step(t) ==
    AppendsReturned(t) =>
        LET record == LogAfter(t)[Len(LogAfter(t))]
            truth == images[t][idx[t]].category
        IN  /\ LogAfter(t) = Append(Log(t), record)
            /\ record.parsed \in {"yes", "no", "error"}
            /\ record.correct <=>
                  ((record.parsed = "yes" /\ truth = "hot_dog")
                      \/ (record.parsed = "no" /\ truth = "not_hot_dog"))
            /\ record.parsed = "error" => ~record.correct
            /\ meta'[t] = [meta[t] EXCEPT
                  !.processed = @ + 1,
                  !.correct = IF record.correct THEN @ + 1 ELSE @,
                  !.errors = IF record.parsed = "error" THEN @ + 1 ELSE @]

\* C28: a record appended for a returned gateway call is correct exactly when
\* the verdict is yes and the image a hot dog, or the verdict no and the image
\* not a hot dog, so never with the verdict error; the step adds 1 to
\* processed, 1 to correct iff the record is correct and 1 to errors iff the
\* verdict is error.
C28_Correctness == [][\A t \in Tasks : C28_Step(t)]_vars

\* a run has the record of a wrong no for a hot dog and that of a text without
\* verdict for an image that is none, neither counted as correct
C28_Witness ==
    \E t \in Held :
        /\ Len(Log(t)) = 2
        /\ Log(t)[1].category = "hot_dog" /\ Log(t)[1].parsed = "no" /\ ~Log(t)[1].correct
        /\ Log(t)[2].category = "not_hot_dog" /\ Log(t)[2].parsed = "error"
        /\ Log(t)[2].raw_response = ""
        /\ meta[t].processed = 2 /\ meta[t].correct = 0 /\ meta[t].errors = 1

\* the counters of a RunMeta
Counters(m) == << m.processed, m.correct, m.errors >>
\* no counter of m is below that of n
NotBelow(m, n) ==
    m.processed >= n.processed /\ m.correct >= n.correct /\ m.errors >= n.errors

C29_Step(t) ==
    (t \in Held /\ pc'[t] # "gone") =>
        \* the RunMeta the executor holds
        /\ NotBelow(meta'[t], meta[t])
        /\ meta[t].status \in Terminal => Counters(meta'[t]) = Counters(meta[t])
        \* and the snapshot of the run on disk
        /\ NotBelow(meta_file'[meta[t].run_id], meta_file[meta[t].run_id])
        /\ meta_file[meta[t].run_id].status \in Terminal =>
              Counters(meta_file'[meta[t].run_id]) = Counters(meta_file[meta[t].run_id])

\* C29: in every step of the system the counters processed, correct and errors
\* of a run do not decrease, and they do not change once the run is completed,
\* cancelled or failed.
C29_Monotone == [][\A t \in Tasks : C29_Step(t)]_vars

\* a run is failed with the counts of the error record it appended, and a
\* cancellation has been asked for it since
C29_Witness ==
    \E t \in Held : /\ meta[t].status = "failed"
                    /\ meta[t].processed = 1 /\ meta[t].errors = 1
                    /\ _cancel_flags[meta[t].run_id]
                    /\ pc[t] = "done"

\* an exception leaves the per-image handling of task t: the step ends the
\* work on an image with neither a record nor the move to the next image
Escapes(t) ==
    /\ pc[t] \in {"classify", "save"}
    /\ pc'[t] \notin {pc[t], "gone"}
    /\ idx'[t] = idx[t]
    /\ LogAfter(t) = Log(t)

C30_State ==
    \A t \in Held : meta[t].status = "failed" => pc[t] = "done"

C30_Step(t) ==
    /\ Escapes(t) => meta'[t].status = "failed" /\ pc'[t] = "done"
    /\ (t \in Held /\ meta[t].status = "failed" /\ pc'[t] # "gone") =>
          /\ h_acquired'[t] = h_acquired[t]
          /\ h_called'[t] = h_called[t]
          /\ LogAfter(t) = Log(t)
          /\ meta'[t].status = "failed"

\* C30: when an exception escapes the per-image handling of a run (the log
\* append of the error branch or the snapshot write after an image raises), the
\* status of the run becomes failed and the run calls acquire() and the gateway
\* and appends to its log no more.
C30_EscapeFails == [](C30_State) /\ [][\A t \in Tasks : C30_Step(t)]_vars

\* a run is failed after the gateway call for its first image, with no record
\* in its log and an image left in its queue
C30_Witness ==
    \E t \in Held : /\ meta[t].status = "failed"
                    /\ h_called[t] # {}
                    /\ Log(t) = <<>>
                    /\ idx[t] = 1
                    /\ Len(images[t]) = 2

\* the files of run r: which of them are present and what they hold
FilesOfRun(r) == << {f \in exists : f[1] = r}, meta_file[r], jsonl[r], queue_file[r] >>
FilesOfRunAfter(r) ==
    << {f \in exists' : f[1] = r}, meta_file'[r], jsonl'[r], queue_file'[r] >>
\* the step is one of the executor of task t
ExecutorStep(t) == pc[t] \notin {"none", "gone"} /\ Moved(t) /\ pc'[t] # "gone"
\* the step is a cancel_run that sets a flag
CancelStep == _cancel_flags' # _cancel_flags /\ _active_runs' = _active_runs

C31_Step ==
    /\ \A t \in Tasks : ExecutorStep(t) =>
          /\ \A u \in Tasks \ {t} : meta'[u] = meta[u] /\ pc'[u] = pc[u] /\ idx'[u] = idx[u]
          /\ \A r \in RunIds \ {meta[t].run_id} : FilesOfRunAfter(r) = FilesOfRun(r)
          /\ queue_file'[meta[t].run_id] = queue_file[meta[t].run_id]
          /\ UNCHANGED registryVars
    /\ CancelStep =>
          /\ \E r \in RunIds :
                /\ _active_runs[r] # 0
                /\ _cancel_flags' = [_cancel_flags EXCEPT ![r] = TRUE]
          /\ UNCHANGED << _active_runs, _active_batches, taskVars, diskVars >>

\* C31: a step of the executor of a run changes the RunMeta, the log and the
\* snapshot of that run only (and the limiter): the RunMeta, position, files and
\* cancellation flag of every other run stay as they are, also when the run
\* fails; cancel_run sets the flag of its run and changes no RunMeta and no file.
C31_Frame == [][C31_Step]_vars

\* one run has failed while another run of the process, asked to cancel, is
\* still running with a record in its log
C31_Witness ==
    \E t, u \in Held :
        /\ t # u
        /\ meta[t].status = "failed"
        /\ meta[u].status = "running"
        /\ Len(Log(u)) >= 1
        /\ _cancel_flags[meta[u].run_id]
        /\ ~_cancel_flags[meta[t].run_id]

\* start_run returns with task t created
StartReturns(t) == pc[t] = "none" /\ pc'[t] = "created"

C32_Step(t) ==
    StartReturns(t) =>
        LET r == meta'[t].run_id
        IN  /\ r \in RunIds
            /\ _active_runs'[r] = t
            /\ meta'[t].status = "pending"
            /\ Counters(meta'[t]) = << 0, 0, 0 >>
            /\ ~_cancel_flags'[r]
            /\ {<< r, "meta" >>, << r, "queue" >>} \subseteq exists'
            /\ meta_file'[r] = meta'[t]
            /\ queue_file'[r] = images'[t]
            /\ meta'[t].total_images = Len(images'[t])
            /\ h_acquired'[t] = {} /\ h_called'[t] = {}
            /\ idx'[t] = 1

\* C32: when start_run returns the new run is registered in memory with the
\* status pending, the counters 0 and the cancellation flag false, its snapshot
\* with that state and its queue snapshot are on disk, and neither acquire() nor
\* the gateway has been called for it.
C32_StartState == [][\A t \in Tasks : C32_Step(t)]_vars

\* a run has just been started under an identifier whose log of an earlier
\* process holds a record
C32_Witness ==
    \E t \in Held : /\ pc[t] = "created"
                    /\ meta[t].status = "pending"
                    /\ Len(images[t]) = 2
                    /\ Len(Log(t)) >= 1

C33_State ==
    \A t \in Held :
        /\ << meta[t].run_id, "queue" >> \in exists
        /\ queue_file[meta[t].run_id] = images[t]
        /\ Len(queue_file[meta[t].run_id]) = meta[t].total_images
        /\ idx[t] \in 1..(Len(images[t]) + 1)

C33_Step ==
    \A r \in RunIds :
        \* the queue snapshot of r is written by a start_run that returns r
        /\ (<< r, "queue" >> \in exists' /\
               (<< r, "queue" >> \notin exists \/ queue_file'[r] # queue_file[r])) =>
              \E t \in Tasks : StartReturns(t) /\ meta'[t].run_id = r
        \* and no step of a registered run, cancel_run or cancel_batch touches it
        /\ (_active_runs[r] # 0 /\ _active_runs'[r] # 0) =>
              /\ queue_file'[r] = queue_file[r]
              /\ << r, "queue" >> \in exists'

\* C33: the queue snapshot of a run is written once, by start_run before the
\* executor starts; no executor step, cancel_run or cancel_batch changes it;
\* its length is total_images of the run and its order that in which the
\* executor goes over the images.
C33_QueueSnapshot == [](C33_State) /\ [][C33_Step]_vars

\* a cancelled run has gone over the first of the two images of its queue
\* snapshot
C33_Witness ==
    \E t \in Held : /\ meta[t].status = "cancelled"
                    /\ Len(queue_file[meta[t].run_id]) = 2
                    /\ Len(Log(t)) = 1
                    /\ Log(t)[1].image_path = Key(queue_file[meta[t].run_id][1])

\* C34: whenever a run is in a terminal state the counters of its snapshot are
\* those its log gives: processed the number of records, correct the number of
\* records with correct = true, errors the number of records with the verdict
\* error; also for a run whose executor started over a log with records.
C34_Rederivable ==
    \A t \in Held :
        (pc[t] = "done" /\ meta[t].status \in Terminal
            /\ meta_file[meta[t].run_id] = meta[t]) =>
                Counters(meta_file[meta[t].run_id]) = Rederived(Log(t))

\* run r is registered in this process with the status pending or running
ActiveRun(r) == _active_runs[r] # 0 /\ meta[_active_runs[r]].status \in Active

\* C35: cancel_run(r) returns True exactly when r is registered in memory with
\* the status pending or running; for an unknown run id and for a run that is
\* completed, cancelled or failed it returns False and changes nothing.
C35_CancelReturn ==
    [][\A r \in RunIds : CancelRun(r) =>
          /\ CancelRunReturns(r) <=> ActiveRun(r)
          /\ ~ActiveRun(r) => UNCHANGED vars]_vars

\* C36: start_run never assigns an identifier that a run known in memory or on
\* disk already has, so no two executors append to one log or write one
\* snapshot, and the creation of a run never resets the cancellation flag of a
\* live run.
C36_UniqueIds ==
    /\ [](\A t, u \in Held : t # u => meta[t].run_id # meta[u].run_id)
    /\ [][\A t \in Tasks : StartReturns(t) =>
             /\ _active_runs[meta'[t].run_id] = 0
             /\ \A f \in exists : f[1] # meta'[t].run_id]_vars
    /\ [][\A r \in RunIds :
             (ActiveRun(r) /\ _cancel_flags[r]) => _cancel_flags'[r]]_vars

\* C37: clear_history, running on a worker thread beside start_run and the
\* executors, never deletes a snapshot, log or queue file of a run that is
\* registered in the in-memory registry.
C37_RegisteredKept ==
    [][\A r \in RunIds : _active_runs[r] # 0 =>
          \A f \in exists : f[1] = r => f \in exists']_vars

\* classify_image has returned or raised
ClassifyEnded ==
    call_args # <<>> /\ call_args[1] = "classify_image" /\ call_ret # <<>>
\* an answer that is a timeout or one of the statuses 429, 402, 502, 503
IsTransient(answer) == answer = 0 \/ answer \in {429, 402, 502, 503}

EnhancedReturned ==
    call_args # <<>> /\ call_args[1] = "compute_enhanced_metrics" /\ call_ret # <<>>

\* C39: for every list of records the metrics computation returns, and a zero
\* denominator gives 0: precision is 0 when TP + FP = 0, recall is 0 when
\* TP + FN = 0, F1 is 0 when precision + recall = 0; for a list without a
\* record other than error records accuracy, precision, recall and F1 are 0,
\* the confidence interval is (0, 0) and the latency statistics are 0.
C39_ZeroDenominators ==
    EnhancedReturned =>
        LET predictions == call_args[2]
            e == call_ret[1]
            m == e.metrics
            tp == CountOf(predictions, "hot_dog", "yes")
            fp == CountOf(predictions, "not_hot_dog", "yes")
            fn == CountOf(predictions, "hot_dog", "no")
            tn == CountOf(predictions, "not_hot_dog", "no")
        IN  /\ {m.accuracy, m.precision, m.recall, m.f1, e.ci_lower, e.ci_upper}
                  \subseteq 0..Places
            /\ e.ci_lower <= e.ci_upper
            /\ tp + fp = 0 => m.precision = 0
            /\ tp + fn = 0 => m.recall = 0
            /\ m.precision + m.recall = 0 => m.f1 = 0
            /\ tp + fp + fn + tn = 0 =>
                  /\ << m.accuracy, m.precision, m.recall, m.f1 >> = << 0, 0, 0, 0 >>
                  /\ << e.ci_lower, e.ci_upper >> = << 0, 0 >>
                  /\ e.latency = [mean_ms |-> 0, median_ms |-> 0, p95_ms |-> 0]

\* the computation has returned for a list of two error records
C39_Witness ==
    /\ EnhancedReturned
    /\ call_args[2] = << MetricRecord("hot_dog", "error"), MetricRecord("not_hot_dog", "error") >>
    /\ call_ret[1].metrics.errors = 2
    /\ call_ret[1].metrics.total = 2

\* the handler of request i runs
HandlerRuns(i) == vote_calls[i].pc = "sent" /\ vote_calls'[i].pc # "sent"

\* C40: votes.jsonl never holds two votes of one voter on one round, however
\* the requests of the four handlers interleave
C40_State ==
    \A j, k \in 1..Len(votes_file) :
        (votes_file[j].round_id = votes_file[k].round_id
            /\ votes_file[j].voter_id = votes_file[k].voter_id) => j = k

\* C40: a vote by a voter whose vote on the round is in the file is answered
\* with a refusal and appends nothing
C40_Step ==
    \A i \in VoteCalls :
        (HandlerRuns(i)
            /\ AlreadyVoted(votes_file, vote_calls[i].round_id, vote_calls[i].voter_id))
        => /\ votes_file' = votes_file
           /\ vote_calls'[i].reply # "recorded"

\* C40: both halves together
C40_OneVote == [](C40_State) /\ [][C40_Step]_vars

\* the webhook handler has written the vote of voter 1 on round 1 and waits
\* for Telegram, and meanwhile the same vote through the arena endpoint has
\* been refused
C40_Witness ==
    /\ Len(votes_file) = 1
    /\ votes_file[1].round_id = 1
    /\ votes_file[1].voter_id = 1
    /\ vote_calls[1] = [pc |-> "telegram", via |-> "_handle_vote_callback", round_id |-> 1,
                        voter_id |-> 1, voted_for |-> "second", first_side |-> "openclaw",
                        intact |-> TRUE, reply |-> "recorded"]
    /\ vote_calls[2].pc = "replied"
    /\ vote_calls[2].via = "arena.submit_vote"
    /\ vote_calls[2].round_id = 1
    /\ vote_calls[2].voter_id = 1
    /\ vote_calls[2].voted_for = "second"
    /\ vote_calls[2].first_side = "openclaw"
    /\ vote_calls[2].reply = "409"

====
